---- MODULE Spec2Model ----
(***************************************************************************)
(* Base44 backend: the REST handlers of backend/app/api over the           *)
(* relational store declared in backend/app/models.                        *)
(*                                                                         *)
(* A table is a set of rows; a row is a function from column names to      *)
(* values.  The handlers go through SQLAlchemy's declarative classes, so   *)
(* three library rules decide what a handler does to the store:            *)
(*   - Model(k=v, ...) raises TypeError when a keyword names something     *)
(*     the class does not declare (CtorOK);                                *)
(*   - reading obj.attr raises AttributeError when the class declares no   *)
(*     such attribute (HasAttr);                                           *)
(*   - obj.attr = v on an undeclared attribute sets a plain Python         *)
(*     attribute that commit() never writes (Persist).                     *)
(* The column sets below are those of the model classes.  NULL is 0: ids   *)
(* and timestamps start at 1.                                              *)
(***************************************************************************)
EXTENDS Integers, Sequences, FiniteSets, TLC

\* ---------------------------------------------------------------- bounds
MaxTenants == 2
MaxAlerts == 2
MaxKpis == 1
MaxPredictions == 1
MaxRecords == 2
MaxBatch == 2
MaxProcs == 2
MaxClock == 3

\* ------------------------------------------------------------ conversions
Digits == <<"0", "1", "2", "3", "4", "5", "6", "7", "8", "9">>

\* str(n) of a non-negative int
RECURSIVE Str(_)
Str(n) == IF n < 10 THEN Digits[n + 1] ELSE Str(n \div 10) \o Digits[(n % 10) + 1]

\* int(s) of a decimal string (the handlers call it only after the guard passed)
IntOf(s) == CHOOSE n \in 0..99 : Str(n) = s

NULL == 0

\* -------------------------------------------------------------------- text
\* A str the code takes apart is the sequence of its characters.
RECURSIVE Join(_)
\* the str itself
Join(s) == IF s = <<>> THEN "" ELSE Head(s) \o Join(Tail(s))

\* the decimal digits of a non-negative int, as text
RECURSIVE Decimal(_)
Decimal(n) ==
    IF n < 10 THEN <<Digits[n + 1]>> ELSE Decimal(n \div 10) \o <<Digits[(n % 10) + 1]>>

\* s.find(sub) + 1: where sub first starts in s, 0 when it does not occur
Find(s, sub) ==
    LET hits == {i \in 1..(Len(s) - Len(sub) + 1) : SubSeq(s, i, i + Len(sub) - 1) = sub}
    IN  IF hits = {} THEN 0 ELSE CHOOSE i \in hits : \A j \in hits : i <= j

\* sub in s
Contains(s, sub) == Find(s, sub) # 0

\* s.split(sep)
RECURSIVE split(_, _)
split(s, sep) ==
    LET i == Find(s, sep)
    IN  IF i = 0 THEN <<s>>
        ELSE <<SubSeq(s, 1, i - 1)>> \o split(SubSeq(s, i + Len(sep), Len(s)), sep)

\* s.strip()
RECURSIVE strip(_)
strip(s) ==
    IF s # <<>> /\ Head(s) = " " THEN strip(Tail(s))
    ELSE IF s # <<>> /\ s[Len(s)] = " " THEN strip(SubSeq(s, 1, Len(s) - 1))
    ELSE s

Upper ==
    <<"A", "B", "C", "D", "E", "F", "G", "H", "I", "J", "K", "L", "M", "N", "O", "P", "Q",
      "R", "S", "T", "U", "V", "W", "X", "Y", "Z">>
Lower ==
    <<"a", "b", "c", "d", "e", "f", "g", "h", "i", "j", "k", "l", "m", "n", "o", "p", "q",
      "r", "s", "t", "u", "v", "w", "x", "y", "z">>
\* s.lower()
lower(s) ==
    [i \in DOMAIN s |->
        IF \E k \in DOMAIN Upper : Upper[k] = s[i]
        THEN Lower[CHOOSE k \in DOMAIN Upper : Upper[k] = s[i]]
        ELSE s[i]]
\* s.replace(old, new) for one-character old and new
replace(s, old, new) == [i \in DOMAIN s |-> IF s[i] = old THEN new ELSE s[i]]

\* A float is held in thousandths.
Unit == 1000
IsDigit(c) == \E k \in DOMAIN Digits : Digits[k] = c
RECURSIVE NatOf(_)
\* the int a text of digits spells
NatOf(ds) ==
    IF ds = <<>> THEN 0
    ELSE NatOf(SubSeq(ds, 1, Len(ds) - 1)) * 10
           + (CHOOSE k \in DOMAIN Digits : Digits[k] = ds[Len(ds)]) - 1

\* float(s): an optional sign, digits, an optional point and digits; ok is FALSE
\* where float raises ValueError.  Digits after the third decimal are dropped;
\* the exponent, inf, nan and underscore forms are not among the texts drawn.
float(s) ==
    LET signed == s # <<>> /\ Head(s) \in {"-", "+"}
        body == IF signed THEN Tail(s) ELSE s
        point == Find(body, <<".">>)
        whole == IF point = 0 THEN body ELSE SubSeq(body, 1, point - 1)
        rest == IF point = 0 THEN <<>> ELSE SubSeq(body, point + 1, Len(body))
        frac == SubSeq(rest \o <<"0", "0", "0">>, 1, 3)
        parses == /\ \A i \in DOMAIN whole : IsDigit(whole[i])
                  /\ \A i \in DOMAIN rest : IsDigit(rest[i])
                  /\ Len(whole) + Len(rest) > 0
        magnitude == NatOf(whole) * Unit + NatOf(frac)
    IN  IF parses
        THEN [ok |-> TRUE, v |-> IF Head(s) = "-" THEN -magnitude ELSE magnitude]
        ELSE [ok |-> FALSE, v |-> 0]

\* ------------------------------------------------------- declarative classes
TenantColumns ==
    {"id", "name", "plan", "config_json", "is_active", "created_at", "updated_at",
     "users", "connectors"}
UserColumns == {"id", "tenant_id", "email", "role", "hashed_password"}
ConnectorColumns ==
    {"id", "tenant_id", "type", "credentials_encrypted", "config_json", "is_active",
     "last_sync", "created_at", "updated_at", "tenant", "raw_ingests"}
RawIngestColumns ==
    {"id", "tenant_id", "connector_id", "raw_data", "status", "created_at", "connector"}
NormalizedRecordColumns ==
    {"id", "tenant_id", "raw_ingest_id", "normalized_data", "entity_type", "created_at",
     "raw_ingest"}
KPIDefinitionColumns ==
    {"id", "tenant_id", "name", "description", "formula", "target_value",
     "alert_threshold", "is_active", "created_at", "updated_at", "values"}
KPIValueColumns ==
    {"id", "tenant_id", "kpi_definition_id", "value", "calculated_at", "meta_data",
     "kpi_definition"}
AlertColumns ==
    {"id", "tenant_id", "title", "description", "severity", "status", "rule_definition",
     "triggered_at", "acknowledged_at", "resolved_at", "created_at", "tenant"}
PredictionColumns ==
    {"id", "tenant_id", "model_name", "prediction_type", "input_data",
     "prediction_result", "confidence_score", "created_at", "tenant"}

\* Model(k=v, ...): every keyword must be an attribute of the class
CtorAny(cols, kw) == TRUE
CtorOK(cols, kw) == kw \subseteq cols

\* obj.attr, Model.attr: AttributeError unless declared
HasAttr(cols, attrs) == attrs \subseteq cols

\* obj.attr = v (a transient Python attribute when attr is no column)
SetAttr(obj, attr, v) ==
    [c \in (DOMAIN obj) \cup {attr} |-> IF c = attr THEN v ELSE obj[c]]

\* commit(): what the row holds afterwards
Persist(cols, obj) == [c \in (DOMAIN obj) \cap cols |-> obj[c]]

Ids(rows) == {r.id : r \in rows}
MaxOf(S) == IF S = {} THEN 0 ELSE CHOOSE m \in S : \A x \in S : x <= m
\* the primary key the sequence hands out at flush
StaleId(rows) == MaxOf(Ids(rows))
NextId(rows) == MaxOf(Ids(rows)) + 1
Row(rows, id) == CHOOSE r \in rows : r.id = id

\* ------------------------------------------------------------------ inputs
Emails == {"a@x", "b@x"}
Passwords == {1, 2}
NoHeader == "<absent>"
\* X-Tenant-ID as sent: absent, or the decimal form of a tenant id
Headers == {NoHeader} \cup {Str(t) : t \in 1..MaxTenants}
PathIds == 1..3
ConnectorTypes == {"csv", "hubspot", "google_ads", "ftp"}
\* csv_connector.max_file_size, in bytes
max_file_size == 10 * 1024 * 1024
\* an uploaded file: its name, whether its bytes decode and parse under the
\* connector's encoding and delimiter, the number of non-empty data rows it
\* parses to, its size in bytes and whether 'email' is among its columns (the
\* other columns being 'company' and the like)
CsvFiles ==
    {[name |-> "empty.csv", decodes |-> TRUE, rows |-> 0, size |-> 14, email |-> TRUE],
     [name |-> "leads.csv", decodes |-> TRUE, rows |-> 3, size |-> 80, email |-> TRUE],
     [name |-> "long.csv", decodes |-> TRUE, rows |-> 6, size |-> 150, email |-> TRUE],
     [name |-> "plain.csv", decodes |-> TRUE, rows |-> 3, size |-> 60, email |-> FALSE],
     [name |-> "bad.csv", decodes |-> FALSE, rows |-> 0, size |-> 2, email |-> FALSE],
     [name |-> "big.csv", decodes |-> TRUE, rows |-> 3, size |-> max_file_size + 1,
      email |-> TRUE]}
Questions == {"alert", "hello"}
KpiNames == {"Lead Conversion Rate"}
\* how many rules of a vertical trigger in one generate-mock call
TriggeredCounts == {0, 1}
ForecastMethods == {"auto", "ensemble"}
Verticals == {"marketing_agency", "unknown"}
\* EvaluateRequest: start_date and end_date, None or a time
Windows == {[start_date |-> NULL, end_date |-> NULL], [start_date |-> 2, end_date |-> 3]}
\* random.uniform(-w, w), in thousandths: three values inside every w the code uses
Variations == {-100, 0, 100}
\* KPI values, in thousandths
Values ==
    {5 * Unit, 8 * Unit, 10 * Unit - 5, 10 * Unit, 10 * Unit + 5, 12 * Unit, 50 * Unit,
     60 * Unit}
\* thresholds and comparison operators of the conditions drawn
Thresholds == {10, 50}
Comparisons == {<<"<">>, <<">">>, <<"=", "=">>}
\* the text "value <op> <rhs>"
Cond(op, rhs) == <<"v", "a", "l", "u", "e", " ">> \o op \o <<" ">> \o rhs
\* one left-hand side, one operator, a right-hand side that is a number
WellFormed ==
    {Cond(op, Decimal(T)) : op \in Comparisons, T \in Thresholds}
        \cup {Cond(<<"<">>, <<"6", ".", "0">>)}
\* two operators, <= and >=, no operator, a right-hand side that is no number,
\* a single =, the empty text
Malformed ==
    {Cond(<<"<">>, <<"1", "0", " ", "<", " ", "2", "0">>),
     Cond(<<">">>, <<"5", " ", "<", " ", "1", "0">>),
     Cond(<<"<", "=">>, <<"1", "0">>),
     Cond(<<">", "=">>, <<"1", "0">>),
     <<"v", "a", "l", "u", "e">>,
     Cond(<<"<">>, <<"a", "b", "c">>),
     Cond(<<"=">>, <<"1", "0">>),
     <<>>}

\* the cells of an uploaded row: an e-mail or nothing, an amount that parses
\* after '$' and ',' are removed or one that does not, a date that parses, a
\* date in another notation and a day that does not exist
UpperEmail == <<"A", "@", "x">>
GoodAmount == <<"$", "1", ",", "2", "5", "0", ".", "5">>
BadAmounts == {<<"1", "2", "a", "b", "c">>}
GoodDate == <<"2", "0", "2", "4", "-", "0", "1", "-", "1", "5">>
OtherNotation == <<"1", "5", "/", "0", "1", "/", "2", "0", "2", "4">>
NoSuchDay == <<"2", "0", "2", "3", "-", "0", "2", "-", "2", "9">>
BadDates == {OtherNotation, NoSuchDay}
\* a row that transforms throughout, and rows with one or two failing fields
CsvRows ==
    {[Email |-> UpperEmail, Amount |-> GoodAmount, Signup |-> GoodDate],
     [Email |-> <<>>, Amount |-> <<"1", "2", "a", "b", "c">>, Signup |-> GoodDate],
     [Email |-> UpperEmail, Amount |-> GoodAmount, Signup |-> OtherNotation],
     [Email |-> UpperEmail, Amount |-> <<"1", "2", "a", "b", "c">>, Signup |-> NoSuchDay]}
\* payload_json["data"]: up to MaxBatch rows
Batches == UNION {[1..n -> CsvRows] : n \in 0..MaxBatch}
\* mapping_config: every column mapped, one column and an absent column mapped,
\* and a config without "mappings"
MappingConfigs ==
    {[mappings |-> <<<<"Email", <<"e", "m", "a", "i", "l">>>>,
                     <<"Amount", <<"a", "m", "o", "u", "n", "t">>>>,
                     <<"Signup", <<"s", "i", "g", "n", "u", "p", "_", "d", "a", "t", "e">>>>>>],
     [mappings |-> <<<<"Amount", <<"v", "a", "l", "u", "e">>>>,
                     <<"Cost", <<"c", "o", "s", "t">>>>>>],
     [confidence_threshold |-> 80]}

\* ------------------------------------------------ app.core.security (absent)
get_password_hash(p) == p + 100
verify_password(plain, hashed) == hashed = get_password_hash(plain)
\* the claims signed into the bearer token
create_access_token(sub, tenant_id) == [sub |-> sub, tenant_id |-> tenant_id]
NoToken == [sub |-> "", tenant_id |-> ""]
\* the caller's home tenant against the asserted tenant identifier
verify_tenant_access(user, asserted) == Str(user.tenant_id) = asserted

\* ------------------------------------------------------------------- state
VARIABLES
    tenants,          \* Tenant rows
    users,            \* User rows
    connectors,       \* Connector rows
    raw_ingest,       \* RawIngest rows
    normalized_records, \* NormalizedRecord rows
    kpi_definitions,  \* KPIDefinition rows
    kpi_values,       \* KPIValue rows
    alerts,           \* Alert rows
    predictions,      \* Prediction rows
    field_mappings,   \* llm_service.field_mappings: a confidence, in percent
    assistant_responses, \* llm_service.assistant_responses: a confidence, in percent
    clock,            \* datetime.utcnow(), a logical time
    written,          \* the tables whose rows the last request changed
    inflight,         \* the register requests of concurrent server processes
    request,          \* the request being answered
    response          \* its answer

store == <<tenants, users, connectors, raw_ingest, normalized_records,
           kpi_definitions, kpi_values, alerts, predictions>>
services == <<field_mappings, assistant_responses>>
vars == <<tenants, users, connectors, raw_ingest, normalized_records,
          kpi_definitions, kpi_values, alerts, predictions, field_mappings,
          assistant_responses, clock, written, inflight, request, response>>

\* the tables by name
Tables ==
    [tenants |-> tenants, users |-> users, connectors |-> connectors,
     raw_ingest |-> raw_ingest, normalized_records |-> normalized_records,
     kpi_definitions |-> kpi_definitions,
     kpi_values |-> kpi_values, alerts |-> alerts, predictions |-> predictions]

\* what the request being answered did to the tables
Observe == written' = {n \in DOMAIN Tables : Tables'[n] # Tables[n]}

\* a request: the caller, X-Tenant-ID, the id in the path, a str argument and
\* the rest of the body
Req(op, user, header, id, arg) ==
    [op |-> op, user |-> user, header |-> header, id |-> id, arg |-> arg,
     body |-> <<>>]

\* an answer: HTTP status, detail, the tables the handler queried or wrote, the
\* ids of the rows a list returns, the Token body of register and login, and
\* what a call of a service returned
Resp(status, detail, touched) ==
    [status |-> status, detail |-> detail, touched |-> touched, rows |-> {},
     token |-> NoToken, user_id |-> 0, tenant_id |-> 0, success |-> FALSE,
     count |-> 0, result |-> <<>>]

ServerError == "Internal Server Error"
AccessDenied == "Access denied to this tenant"

\* Header(...): a request without the header never reaches the handler body
Unprocessable == Resp(422, "Field required", {})
Forbidden == Resp(403, AccessDenied, {})
\* an answer that leaves the store and the services alone
Answer(r) ==
    /\ response' = r
    /\ UNCHANGED <<inflight, store, services, clock>>
    /\ Observe
\* Depends(get_current_user): the User row of the bearer
Caller(u) == Row(users, u)
\* .filter(Model.tenant_id == int(x_tenant_id)): the rows of one tenant
OfAnyTenant(rows, t) == rows
OfTenant(rows, t) == {r \in rows : r.tenant_id = t}

\* ------------------------------------------------------ service singletons
\* llm_service.field_mappings["csv"]["marketing_agency"][0]["confidence"]
EmailConfidence == 95
\* llm_service.assistant_responses["alert_questions"]["responses"][0]["confidence_score"]
AlertAnswerConfidence == 88
\* random.uniform(-0.1, 0.1), in percent: its two ends
Drifts == {-10, 10}
Clamp(lo, hi, x) == IF x < lo THEN lo ELSE IF x > hi THEN hi ELSE x

\* ------------------------------------------------- server processes
\* server processes that share the store (core/config.py database_url)
Procs == 1..MaxProcs
\* a process with no register request in hand
Idle == [stage |-> "idle", email |-> "", password |-> 0, status |-> 0]

\* ------------------------------------------------------------ initial store
\* The store is an external database (core/config.py database_url): at start-up
\* it is empty, or holds rows put there directly, as the test fixtures do.
FixtureTenants == {[id |-> 1], [id |-> 2]}
FixtureUsers ==
    {[id |-> 1, tenant_id |-> 1, email |-> "a@x", hashed_password |-> get_password_hash(1)],
     [id |-> 2, tenant_id |-> 2, email |-> "b@x", hashed_password |-> get_password_hash(1)]}

SeededAlerts(owner) ==
    {[id |-> i, tenant_id |-> owner[i], status |-> "active",
      acknowledged_at |-> NULL, resolved_at |-> NULL] : i \in DOMAIN owner}
SeededKpis(owner) ==
    {[id |-> i, tenant_id |-> owner[i], name |-> "Lead Conversion Rate"] : i \in DOMAIN owner}
\* one value per seeded KPI, and normalized records created at times 1, 2, ...
SeededKpiValues(owner) ==
    {[id |-> i, tenant_id |-> owner[i], kpi_definition_id |-> i, value |-> 12 * Unit,
      calculated_at |-> 1] : i \in DOMAIN owner}
SeededRecords(owner) ==
    {[id |-> i, tenant_id |-> owner[i], created_at |-> i] : i \in DOMAIN owner}
SeededPredictions(owner) ==
    {[id |-> i, tenant_id |-> owner[i], model_name |-> "mock_forecast"] : i \in DOMAIN owner}

\* every seeded row belongs to tenant 1; tenant 2 is the other tenant
Owner(max) == [i \in 1..max |-> 1]

\* the server starts at time now
Start(now) ==
    /\ connectors = {}
    /\ raw_ingest = {}
    /\ clock = now
    /\ written = {}
    /\ field_mappings = EmailConfidence
    /\ assistant_responses = AlertAnswerConfidence
    /\ request = Req("start", 0, NoHeader, 0, "")
    /\ response = Resp(0, "", {})
    /\ inflight = [p \in Procs |-> Idle]
    /\ \/ /\ tenants = {}
          /\ users = {}
          /\ alerts = {}
          /\ kpi_definitions = {}
          /\ kpi_values = {}
          /\ normalized_records = {}
          /\ predictions = {}
       \/ /\ tenants = FixtureTenants
          /\ users = FixtureUsers
          /\ alerts = SeededAlerts(Owner(MaxAlerts))
          /\ kpi_definitions = SeededKpis(Owner(MaxKpis))
          /\ kpi_values = SeededKpiValues(Owner(MaxKpis))
          /\ normalized_records = SeededRecords(Owner(MaxRecords))
          /\ predictions = SeededPredictions(Owner(MaxPredictions))

\* ------------------------------------------------ services/kpi_engine.py
\* obj.attr on an object that may carry plain Python attributes besides the
\* attributes its class declares
Readable(cols, obj, attrs) == attrs \subseteq cols \cup DOMAIN obj

\* dict.get(key, default)
Get(table, key, default) == IF key \in DOMAIN table THEN table[key] ELSE default

\* the characters of the KPI names drawn
Spelling ==
    ("Lead Conversion Rate" :>
        <<"L", "e", "a", "d", " ", "C", "o", "n", "v", "e", "r", "s", "i", "o", "n", " ",
          "R", "a", "t", "e">>)
    @@ ("Cost Per Lead" :>
        <<"C", "o", "s", "t", " ", "P", "e", "r", " ", "L", "e", "a", "d">>)
    @@ ("Customer Churn" :>
        <<"C", "u", "s", "t", "o", "m", "e", "r", " ", "C", "h", "u", "r", "n">>)

\* name.lower().replace(" ", "_")
normalised(name) == Join(replace(lower(Spelling[name]), " ", "_"))

\* kpi_engine.kpi_formulas: vertical -> normalised KPI name -> the text of "formula"
kpi_formulas ==
    [marketing_agency |->
        [lead_conversion_rate |->
            <<"c", "o", "n", "v", "e", "r", "t", "e", "d", "_", "l", "e", "a", "d", "s", " ", "/",
              " ", "t", "o", "t", "a", "l", "_", "l", "e", "a", "d", "s", " ", "*",
              " ", "1", "0", "0">>,
         cost_per_lead |->
            <<"t", "o", "t", "a", "l", "_", "s", "p", "e", "n", "d", " ", "/", " ", "t", "o", "t",
              "a", "l", "_", "l", "e", "a", "d", "s">>,
         lead_quality_score |->
            <<"s", "u", "m", "(", "l", "e", "a", "d", "_", "s", "c", "o", "r", "e", "s", ")", " ",
              "/", " ", "c", "o", "u", "n", "t", "(", "l", "e", "a", "d", "s", ")">>,
         campaign_roi |->
            <<"(", "r", "e", "v", "e", "n", "u", "e", " ", "-", " ", "c", "o", "s", "t", ")", " ",
              "/", " ", "c", "o", "s", "t", " ", "*", " ", "1", "0", "0">>,
         monthly_revenue |->
            <<"s", "u", "m", "(", "c", "o", "n", "v", "e", "r", "t", "e", "d", "_", "l", "e", "a",
              "d", "s", " ", "*", " ", "a", "v", "e", "r", "a", "g", "e", "_", "d",
              "e", "a", "l", "_", "s", "i", "z", "e", ")">>],
     urgent_clinic |->
        [average_wait_time |->
            <<"s", "u", "m", "(", "w", "a", "i", "t", "_", "t", "i", "m", "e", "_", "m", "i", "n",
              "u", "t", "e", "s", ")", " ", "/", " ", "c", "o", "u", "n", "t", "(",
              "v", "i", "s", "i", "t", "s", ")">>,
         patient_volume |->
            <<"c", "o", "u", "n", "t", "(", "v", "i", "s", "i", "t", "s", ")", " ", "w", "h", "e",
              "r", "e", " ", "d", "a", "t", "e", "(", "v", "i", "s", "i", "t", "_",
              "d", "a", "t", "e", ")", " ", "=", " ", "t", "o", "d", "a", "y">>,
         revenue_per_visit |->
            <<"s", "u", "m", "(", "t", "o", "t", "a", "l", "_", "c", "o", "s", "t", ")", " ", "/",
              " ", "c", "o", "u", "n", "t", "(", "v", "i", "s", "i", "t", "s", ")">>,
         provider_utilization |->
            <<"s", "u", "m", "(", "t", "r", "e", "a", "t", "m", "e", "n", "t", "_", "t", "i", "m",
              "e", ")", " ", "/", " ", "s", "u", "m", "(", "s", "h", "i", "f", "t",
              "_", "t", "i", "m", "e", ")", " ", "*", " ", "1", "0", "0">>,
         no_show_rate |->
            <<"c", "o", "u", "n", "t", "(", "n", "o", "_", "s", "h", "o", "w", "s", ")", " ", "/",
              " ", "c", "o", "u", "n", "t", "(", "s", "c", "h", "e", "d", "u", "l",
              "e", "d", "_", "v", "i", "s", "i", "t", "s", ")", " ", "*", " ", "1",
              "0", "0">>],
     local_police |->
        [incident_volume |->
            <<"c", "o", "u", "n", "t", "(", "i", "n", "c", "i", "d", "e", "n", "t", "s", ")", " ",
              "w", "h", "e", "r", "e", " ", "d", "a", "t", "e", "(", "i", "n", "c",
              "i", "d", "e", "n", "t", "_", "d", "a", "t", "e", ")", " ", "=", " ",
              "t", "o", "d", "a", "y">>,
         average_response_time |->
            <<"s", "u", "m", "(", "r", "e", "s", "p", "o", "n", "s", "e", "_", "t", "i", "m", "e",
              "_", "m", "i", "n", "u", "t", "e", "s", ")", " ", "/", " ", "c", "o",
              "u", "n", "t", "(", "i", "n", "c", "i", "d", "e", "n", "t", "s", ")">>,
         case_resolution_rate |->
            <<"c", "o", "u", "n", "t", "(", "r", "e", "s", "o", "l", "v", "e", "d", "_", "c", "a",
              "s", "e", "s", ")", " ", "/", " ", "c", "o", "u", "n", "t", "(", "t",
              "o", "t", "a", "l", "_", "c", "a", "s", "e", "s", ")", " ", "*", " ",
              "1", "0", "0">>,
         officer_efficiency |->
            <<"c", "o", "u", "n", "t", "(", "i", "n", "c", "i", "d", "e", "n", "t", "s", "_", "h",
              "a", "n", "d", "l", "e", "d", ")", " ", "/", " ", "c", "o", "u", "n",
              "t", "(", "a", "c", "t", "i", "v", "e", "_", "o", "f", "f", "i", "c",
              "e", "r", "s", ")">>,
         community_satisfaction |->
            <<"s", "u", "m", "(", "s", "a", "t", "i", "s", "f", "a", "c", "t", "i", "o", "n", "_",
              "s", "c", "o", "r", "e", "s", ")", " ", "/", " ", "c", "o", "u", "n",
              "t", "(", "s", "u", "r", "v", "e", "y", "s", ")">>]]

\* base_values of _generate_mock_kpi_value, in thousandths
base_values ==
    [marketing_agency |-> [lead_conversion_rate |-> 12500, cost_per_lead |-> 28500,
         lead_quality_score |-> 7200, campaign_roi |-> 285000,
         monthly_revenue |-> 45000000],
     urgent_clinic |-> [average_wait_time |-> 35000, patient_volume |-> 48000,
         revenue_per_visit |-> 145000, provider_utilization |-> 78000,
         no_show_rate |-> 12000],
     local_police |-> [incident_volume |-> 18000, average_response_time |-> 6500,
         case_resolution_rate |-> 82000, officer_efficiency |-> 2800,
         community_satisfaction |-> 7900]]

\* round(base * (1 + variation), 2), variation in thousandths
Varied(base, variation) == ((base + (base * variation) \div Unit + 5) \div 10) * 10

\* the base a KPI without entry in base_values gets
DefaultBase == 50 * Unit

_generate_mock_kpi_value(kpi_name, vertical, variation) ==
    Varied(Get(Get(base_values, vertical, <<>>), kpi_name, DefaultBase), variation)

\* the first branch whose keyword the lower-cased formula contains
_calculate_formula_value(formula, vertical, variation) ==
    LET text == lower(formula)
    IN  IF Contains(text, <<"c", "o", "n", "v", "e", "r", "s", "i", "o", "n">>)
        THEN Varied(12500, variation)
        ELSE IF Contains(text, <<"c", "o", "s", "t">>) THEN Varied(28500, variation)
        ELSE IF Contains(text, <<"w", "a", "i", "t">>) THEN Varied(35000, variation)
        ELSE IF Contains(text, <<"v", "o", "l", "u", "m", "e">>) THEN Varied(50000, variation)
        ELSE IF Contains(text, <<"r", "o", "i">>) THEN Varied(285000, variation)
        ELSE _generate_mock_kpi_value("default", vertical, variation)

\* kpi_engine.calculate_kpi: the exception it raises ("" when it returns) and the
\* keyword arguments it has evaluated for KPIValue(...) by then
calculate_kpi(kpi_definition, records, start_date, end_date, variation) ==
    IF ~Readable(KPIDefinitionColumns, kpi_definition, {"vertical", "name"})
    THEN [raised |-> "AttributeError", kpi_value |-> <<>>]
    ELSE LET vertical == kpi_definition.vertical
             kpi_name == normalised(kpi_definition.name)
             formula_config == Get(Get(kpi_formulas, vertical, <<>>), kpi_name, <<>>)
             mock_value ==
                 IF formula_config = <<>>
                 THEN _generate_mock_kpi_value(kpi_name, vertical, variation)
                 ELSE _calculate_formula_value(formula_config, vertical, variation)
             kw == [tenant_id |-> kpi_definition.tenant_id,
                    kpi_id |-> kpi_definition.id,
                    timestamp |-> IF end_date = NULL THEN clock ELSE end_date,
                    value |-> mock_value,
                    provenance |->
                        [source_records |-> Cardinality(records),
                         calculation_method |->
                             IF formula_config = <<>> THEN "mock_generated"
                             ELSE "formula_based"]]
         IN  [raised |-> IF CtorOK(KPIValueColumns, DOMAIN kw) THEN "" ELSE "TypeError",
              kpi_value |-> kw]

\* ---------------------------------------------- services/alert_engine.py
\* alert_engine.alert_rules: vertical -> rules; "condition" as its text
alert_rules ==
    [marketing_agency |->
        <<[name |-> "Low Conversion Rate Alert", kpi_name |-> "lead_conversion_rate",
           severity |-> "high", condition |-> <<"v", "a", "l", "u", "e", " ", "<", " ", "1", "0">>],
          [name |-> "High Cost Per Lead Alert", kpi_name |-> "cost_per_lead",
           severity |-> "medium", condition |-> <<"v", "a", "l", "u", "e", " ", ">", " ", "5", "0">>],
          [name |-> "Revenue Drop Alert", kpi_name |-> "monthly_revenue",
           severity |-> "high", condition |-> <<"v", "a", "l", "u", "e", " ", "<", " ", "3", "0", "0", "0", "0">>],
          [name |-> "Lead Quality Decline", kpi_name |-> "lead_quality_score",
           severity |-> "medium", condition |-> <<"v", "a", "l", "u", "e", " ", "<", " ", "6", ".", "0">>]>>,
     urgent_clinic |->
        <<[name |-> "Long Wait Time Alert", kpi_name |-> "average_wait_time",
           severity |-> "high", condition |-> <<"v", "a", "l", "u", "e", " ", ">", " ", "6", "0">>],
          [name |-> "Low Patient Volume Alert", kpi_name |-> "patient_volume",
           severity |-> "medium", condition |-> <<"v", "a", "l", "u", "e", " ", "<", " ", "3", "0">>],
          [name |-> "High No-Show Rate Alert", kpi_name |-> "no_show_rate",
           severity |-> "medium", condition |-> <<"v", "a", "l", "u", "e", " ", ">", " ", "2", "0">>],
          [name |-> "Low Provider Utilization", kpi_name |-> "provider_utilization",
           severity |-> "low", condition |-> <<"v", "a", "l", "u", "e", " ", "<", " ", "6", "0">>]>>,
     local_police |->
        <<[name |-> "High Incident Volume Alert", kpi_name |-> "incident_volume",
           severity |-> "high", condition |-> <<"v", "a", "l", "u", "e", " ", ">", " ", "2", "5">>],
          [name |-> "Slow Response Time Alert", kpi_name |-> "average_response_time",
           severity |-> "high", condition |-> <<"v", "a", "l", "u", "e", " ", ">", " ", "1", "0">>],
          [name |-> "Low Resolution Rate Alert", kpi_name |-> "case_resolution_rate",
           severity |-> "medium", condition |-> <<"v", "a", "l", "u", "e", " ", "<", " ", "7", "0">>],
          [name |-> "Low Community Satisfaction", kpi_name |-> "community_satisfaction",
           severity |-> "medium", condition |-> <<"v", "a", "l", "u", "e", " ", "<", " ", "6", ".", "0">>]>>]

\* alert_engine._evaluate_condition; a ValueError or IndexError inside the try
\* block gives False
_evaluate_condition(value, condition) ==
    LET threshold(sep) == float(strip(split(condition, sep)[2]))
    IN  IF Contains(condition, <<"<">>)
        THEN threshold(<<"<">>).ok /\ value < threshold(<<"<">>).v
        ELSE IF Contains(condition, <<">">>)
        THEN threshold(<<">">>).ok /\ value > threshold(<<">">>).v
        ELSE IF Contains(condition, <<"=", "=">>)
        THEN LET t == threshold(<<"=", "=">>)
                 diff == IF value < t.v THEN t.v - value ELSE value - t.v
             IN  t.ok /\ diff < Unit \div 100
        ELSE FALSE

\* alert_engine.check_kpi_alerts: the exception it raises ("" when it returns)
\* and the rules whose Alert it has built
check_kpi_alerts(kpi_value, kpi_definition) ==
    IF ~Readable(KPIDefinitionColumns, kpi_definition, {"vertical"})
    THEN [raised |-> "AttributeError", alerts |-> {}]
    ELSE LET rules == Get(alert_rules, kpi_definition.vertical, <<>>)
             hits == {i \in DOMAIN rules :
                        /\ rules[i].kpi_name = normalised(kpi_definition.name)
                        /\ _evaluate_condition(kpi_value.value, rules[i].condition)}
         IN  IF hits = {} THEN [raised |-> "", alerts |-> {}]
             ELSE IF ~Readable(KPIValueColumns, kpi_value, {"tenant_id", "value", "timestamp"})
             THEN [raised |-> "AttributeError", alerts |-> {}]
             ELSE IF ~CtorOK(AlertColumns,
                             {"tenant_id", "kpi_id", "rule_json", "severity", "details"})
             THEN [raised |-> "TypeError", alerts |-> {}]
             ELSE [raised |-> "", alerts |-> {rules[i].name : i \in hits}]

\* ------------------------------- services/csv_connector.py: normalisation
\* s.replace(old, new) for a one-character old and any text new
RECURSIVE replace_with(_, _, _)
replace_with(s, old, new) ==
    IF s = <<>> THEN <<>>
    ELSE (IF Head(s) = old THEN new ELSE <<Head(s)>>) \o replace_with(Tail(s), old, new)

\* the values a canonical field takes: a str, a float, a bool or None
StrValue(s) == [str |-> s]
FloatValue(x) == [float |-> x]
BoolValue(b) == [bool |-> b]
None == [none |-> TRUE]

\* days of a month of the proleptic Gregorian calendar
DaysIn(year, month) ==
    IF month = 2
    THEN (IF (year % 4 = 0 /\ year % 100 # 0) \/ year % 400 = 0 THEN 29 ELSE 28)
    ELSE IF month \in {4, 6, 9, 11} THEN 30 ELSE 31

\* datetime.fromisoformat(s).isoformat() of the date-only form YYYY-MM-DD: ok is
\* FALSE where fromisoformat raises ValueError.  Forms with a time part are not
\* among the texts drawn.
fromisoformat(s) ==
    LET shaped == /\ Len(s) = 10
                  /\ s[5] = "-" /\ s[8] = "-"
                  /\ \A i \in {1, 2, 3, 4, 6, 7, 9, 10} : IsDigit(s[i])
        year == NatOf(SubSeq(s, 1, 4))
        month == NatOf(SubSeq(s, 6, 7))
        day == NatOf(SubSeq(s, 9, 10))
        valid == /\ shaped
                 /\ year >= 1
                 /\ month \in 1..12
                 /\ day \in 1..DaysIn(year, month)
    IN  IF valid
        THEN [ok |-> TRUE, v |-> s \o <<"T", "0", "0", ":", "0", "0", ":", "0", "0">>]
        ELSE [ok |-> FALSE, v |-> <<>>]

\* the texts the boolean transformation takes for true
Truthy ==
    {<<"t", "r", "u", "e">>, <<"1">>, <<"y", "e", "s">>, <<"a", "c", "t", "i", "v", "e">>,
     <<"c", "o", "n", "v", "e", "r", "t", "e", "d">>}

\* csv_connector._apply_transformation(value, target_field)
_apply_transformation(value, target_field) ==
    IF value = <<>> THEN None
    ELSE IF target_field \in {<<"e", "m", "a", "i", "l">>, <<"s", "o", "u", "r", "c", "e">>}
    THEN StrValue(strip(lower(value)))
    ELSE IF \/ Contains(target_field, <<"d", "a", "t", "e">>)
            \/ Contains(target_field, <<"t", "i", "m", "e">>)
    THEN LET parsed == fromisoformat(replace_with(value, "Z", <<"+", "0", "0", ":", "0", "0">>))
         IN  IF parsed.ok THEN StrValue(parsed.v) ELSE StrValue(value)
    ELSE IF target_field \in {<<"v", "a", "l", "u", "e">>, <<"c", "o", "s", "t">>,
                              <<"b", "u", "d", "g", "e", "t">>,
                              <<"a", "m", "o", "u", "n", "t">>}
    THEN LET parsed == float(replace_with(replace_with(value, "$", <<>>), ",", <<>>))
         IN  IF parsed.ok THEN FloatValue(parsed.v) ELSE StrValue(value)
    ELSE IF target_field \in {<<"a", "c", "t", "i", "v", "e">>,
                              <<"e", "n", "a", "b", "l", "e", "d">>,
                              <<"c", "o", "n", "v", "e", "r", "t", "e", "d">>}
    THEN BoolValue(lower(value) \in Truthy)
    ELSE StrValue(value)

\* csv_connector._apply_field_mappings(row, mappings): mappings is the dict in
\* its insertion order, a sequence of <<source_field, target_field>>; a later
\* pair with the same target overwrites an earlier one
_apply_field_mappings(row, mappings) ==
    LET used == {i \in DOMAIN mappings : mappings[i][1] \in DOMAIN row}
        last(t) == CHOOSE i \in used :
                      /\ Join(mappings[i][2]) = t
                      /\ \A j \in used : Join(mappings[j][2]) = t => j <= i
    IN  [t \in {Join(mappings[i][2]) : i \in used} |->
            _apply_transformation(row[mappings[last(t)][1]], mappings[last(t)][2])]

\* csv_connector._determine_entity_type(normalized_data, mappings)
_determine_entity_type(normalized_data, mappings) ==
    LET any(fields) == fields \cap DOMAIN normalized_data # {}
    IN  IF any({"email", "lead_id", "conversion"}) THEN "lead"
        ELSE IF any({"campaign_id", "budget", "platform"}) THEN "campaign"
        ELSE IF any({"patient_id", "first_name", "last_name"}) THEN "patient"
        ELSE IF any({"visit_id", "chief_complaint", "diagnosis"}) THEN "visit"
        ELSE IF any({"incident_id", "incident_type", "location"}) THEN "incident"
        ELSE "record"

\* csv_connector.normalize_csv_data(raw_ingest, mapping_config, tenant_id): the
\* exception raised, if any, and the keyword arguments of the NormalizedRecord
\* built for each row
normalize_csv_data(ingest, mapping_config, tenant_id) ==
    IF ~Readable(RawIngestColumns, ingest, {"payload_json"})
    THEN [raised |-> "AttributeError", records |-> <<>>]
    ELSE LET csv_data == Get(ingest.payload_json, "data", <<>>)
             mappings == Get(mapping_config, "mappings", <<>>)
             kw(i) ==
                 LET row == csv_data[i]
                     normalized_data == _apply_field_mappings(row, mappings)
                 IN  [tenant_id |-> tenant_id,
                      entity_type |-> _determine_entity_type(normalized_data, mappings),
                      canonical_json |-> normalized_data,
                      source_refs_json |->
                          [raw_ingest_id |-> ingest.id,
                           row_index |-> i - 1,
                           original_data |-> row]]
         IN  IF /\ csv_data # <<>>
                /\ ~CtorOK(NormalizedRecordColumns,
                           {"tenant_id", "entity_type", "canonical_json",
                            "source_refs_json"})
             THEN [raised |-> "TypeError", records |-> <<>>]
             ELSE [raised |-> "", records |-> [i \in DOMAIN csv_data |-> kw(i)]]

\* -------------------------------------------------------------- api/auth.py
\* db.query(User).filter(User.email == email): register's duplicate check
no_existing_user(email) == {}
existing_user(email) == {u \in users : u.email = email}

\* POST /api/v1/auth/register
register(email, password) ==
    /\ IF existing_user(email) # {} THEN TRUE
       ELSE Cardinality(tenants) < MaxTenants /\ clock < MaxClock
    /\ request' = Req("register", 0, NoHeader, password, email)
    /\ IF existing_user(email) # {}
       THEN /\ response' = Resp(400, "Email already registered", {"users"})
            /\ UNCHANGED <<tenants, users>>
       ELSE IF ~(/\ CtorOK(TenantColumns, {"name", "plan"})
                 /\ CtorOK(UserColumns, {"tenant_id", "email", "role", "hashed_password"}))
       THEN /\ response' = Resp(500, ServerError, {"users"})
            /\ UNCHANGED <<tenants, users>>
       ELSE LET tenant == [id |-> NextId(tenants)]
                user == [id |-> NextId(users), tenant_id |-> tenant.id, email |-> email,
                         hashed_password |-> get_password_hash(password)]
            IN  /\ tenants' = tenants \cup {tenant}
                /\ users' = users \cup {user}
                /\ response' =
                     [Resp(200, "", {"users", "tenants"}) EXCEPT
                        !.token = create_access_token(Str(user.id), Str(tenant.id)),
                        !.tenant_id = tenant.id,
                        !.user_id = user.id]
    /\ clock' = IF tenants' = tenants THEN clock ELSE clock + 1
    /\ UNCHANGED <<inflight, normalized_records, connectors, raw_ingest,
                   kpi_definitions, kpi_values, alerts, predictions, services>>
    /\ Observe

\* register as the steps one server process runs while others run theirs.
\* First the query at the top of the handler: the 400, or on to the inserts.
register_query(p, email, password) ==
    /\ inflight[p].stage = "idle"
    /\ request' = Req("register", 0, NoHeader, password, email)
    /\ IF existing_user(email) # {}
       THEN /\ inflight' = [inflight EXCEPT ![p] =
                              [stage |-> "done", email |-> email,
                               password |-> password, status |-> 400]]
            /\ response' = Resp(400, "Email already registered", {"users"})
       ELSE /\ inflight' = [inflight EXCEPT ![p] =
                              [stage |-> "queried", email |-> email,
                               password |-> password, status |-> 0]]
            /\ response' = response
    /\ UNCHANGED <<store, services, clock>>
    /\ Observe

\* Then db.add(tenant), db.flush(), db.add(user), db.commit() and the token:
\* the handler does not query again, and the rows it adds are those of the
\* atomic register
register_commit(p) ==
    LET email == inflight[p].email
        password == inflight[p].password
        tenant == [id |-> NextId(tenants)]
        user == [id |-> NextId(users), tenant_id |-> tenant.id, email |-> email,
                 hashed_password |-> get_password_hash(password)]
        accepted == /\ CtorOK(TenantColumns, {"name", "plan"})
                    /\ CtorOK(UserColumns, {"tenant_id", "email", "role", "hashed_password"})
    IN  /\ inflight[p].stage = "queried"
        /\ request' = Req("register", 0, NoHeader, password, email)
        /\ IF ~accepted
           THEN /\ response' = Resp(500, ServerError, {"users"})
                /\ UNCHANGED <<tenants, users>>
           ELSE /\ tenants' = tenants \cup {tenant}
                /\ users' = users \cup {user}
                /\ response' =
                     [Resp(200, "", {"users", "tenants"}) EXCEPT
                        !.token = create_access_token(Str(user.id), Str(tenant.id)),
                        !.tenant_id = tenant.id,
                        !.user_id = user.id]
        /\ inflight' = [inflight EXCEPT ![p].stage = "done",
                                        ![p].status = response'.status]
        /\ clock' = IF tenants' = tenants THEN clock ELSE clock + 1
        /\ UNCHANGED <<connectors, raw_ingest, normalized_records, kpi_definitions,
                       kpi_values, alerts, predictions, services>>
        /\ Observe

\* the user login lets in: the row with the e-mail, if the password verifies
authenticate_by_email(email, password) == {u \in users : u.email = email}
authenticate(email, password) ==
    {u \in users : u.email = email /\ verify_password(password, u.hashed_password)}

\* POST /api/v1/auth/login
login(email, password) ==
    /\ request' = Req("login", 0, NoHeader, password, email)
    /\ LET found == authenticate(email, password)
       IN  IF found = {}
           THEN response' = Resp(401, "Incorrect email or password", {"users"})
           ELSE LET user == CHOOSE u \in found : TRUE
                IN  response' =
                      [Resp(200, "", {"users"}) EXCEPT
                         !.token = create_access_token(Str(user.id), Str(user.tenant_id)),
                         !.tenant_id = user.tenant_id,
                         !.user_id = user.id]
    /\ UNCHANGED <<inflight, store, services, clock>>
    /\ Observe


\* -------------------------------------------------------- api/connectors.py
\* POST /api/v1/connectors/
create_connector(u, h, type) ==
    LET kw == {"tenant_id", "type", "credentials_encrypted", "config_json"}
        read == {"id", "tenant_id", "type", "config_json", "last_sync_at", "created_at"}
    IN  /\ request' = Req("create_connector", u, h, 0, type)
        /\ IF h = NoHeader THEN Answer(Unprocessable)
           ELSE IF ~verify_tenant_access(Caller(u), h) THEN Answer(Forbidden)
           ELSE IF ~CtorOK(ConnectorColumns, kw) THEN Answer(Resp(500, ServerError, {}))
           ELSE LET db_connector ==
                        [id |-> NextId(connectors), tenant_id |-> IntOf(h),
                         type |-> type, last_sync |-> NULL]
                IN  /\ clock < MaxClock
                    /\ connectors' = connectors \cup {db_connector}
                    /\ clock' = clock + 1
                    /\ response' =
                         IF HasAttr(ConnectorColumns, read)
                         THEN [Resp(200, "", {"connectors"}) EXCEPT
                                 !.rows = {db_connector.id},
                                 !.tenant_id = db_connector.tenant_id]
                         ELSE Resp(500, ServerError, {"connectors"})
                    /\ UNCHANGED <<inflight, normalized_records, tenants, users,
                                   raw_ingest, kpi_definitions, kpi_values, alerts,
                                   predictions, services>>
                    /\ Observe

\* list_connectors without its access check
list_connectors_unchecked(u, h) ==
    /\ request' = Req("list_connectors", u, h, 0, "")
    /\ IF h = NoHeader THEN Answer(Unprocessable)
       ELSE Answer([Resp(200, "", {"connectors"}) EXCEPT
                      !.rows = Ids(OfTenant(connectors, IntOf(h)))])

\* GET /api/v1/connectors/
list_connectors(u, h) ==
    LET read == {"id", "tenant_id", "type", "config_json", "last_sync_at", "created_at"}
    IN  /\ request' = Req("list_connectors", u, h, 0, "")
        /\ IF h = NoHeader THEN Answer(Unprocessable)
           ELSE IF ~verify_tenant_access(Caller(u), h) THEN Answer(Forbidden)
           ELSE LET found == OfTenant(connectors, IntOf(h))
                IN  IF found # {} /\ ~HasAttr(ConnectorColumns, read)
                    THEN Answer(Resp(500, ServerError, {"connectors"}))
                    ELSE Answer([Resp(200, "", {"connectors"}) EXCEPT
                                   !.rows = Ids(found), !.count = Cardinality(found)])

\* live_connector_service.sync_connector: len(payload_json["data"]) of each
\* RawIngest object one sync builds, in the order it builds them
SyncBatches(type) ==
    IF type = "hubspot" THEN <<50, 30, 20>>
    ELSE IF type = "google_ads" THEN <<15, 30, 50, 100>>
    ELSE <<>>

\* sum(...) of a list of ints
RECURSIVE sum(_)
sum(xs) == IF xs = <<>> THEN 0 ELSE Head(xs) + sum(Tail(xs))

\* POST /api/v1/connectors/{connector_id}/sync
sync_connector(u, h, connector_id) ==
    LET kw == {"tenant_id", "connector_id", "payload_json"}
    IN  /\ request' = Req("sync_connector", u, h, connector_id, "")
        /\ IF h = NoHeader THEN Answer(Unprocessable)
           ELSE IF ~verify_tenant_access(Caller(u), h) THEN Answer(Forbidden)
           ELSE IF connector_id \notin Ids(OfTenant(connectors, IntOf(h)))
           THEN Answer(Resp(404, "Connector not found", {"connectors"}))
           ELSE LET connector == Row(connectors, connector_id)
                    batches == SyncBatches(connector.type)
                    first == NextId(raw_ingest)
                IN  IF connector.type = "csv"
                    THEN Answer([Resp(200, "CSV sync requires file upload", {"connectors"})
                                   EXCEPT !.success = TRUE])
                    ELSE IF connector.type \notin {"hubspot", "google_ads"}
                    THEN Answer(Resp(200, "Unsupported connector type", {"connectors"}))
                    \* the TypeError of the first RawIngest(...) is caught by the
                    \* handler's except Exception
                    ELSE IF ~CtorOK(RawIngestColumns, kw)
                    THEN Answer(Resp(200, "Sync failed", {"connectors"}))
                    ELSE /\ clock < MaxClock
                         /\ raw_ingest' = raw_ingest \cup
                              {[id |-> first + i - 1, tenant_id |-> IntOf(h),
                                connector_id |-> connector.id,
                                record_count |-> batches[i]]
                                 : i \in DOMAIN batches}
                         /\ clock' = clock + 1
                         /\ response' =
                              [Resp(200, "Sync completed", {"connectors", "raw_ingest"})
                                 EXCEPT !.success = TRUE,
                                        !.count = sum(batches),
                                        !.rows = {first + i - 1 : i \in DOMAIN batches}]
                         /\ UNCHANGED <<inflight, tenants, users, connectors,
                                        normalized_records, kpi_definitions, kpi_values,
                                        alerts, predictions, services>>
                         /\ Observe

\* llm_service.suggest_field_mapping: every suggestion's confidence drifts by d
\* and is clamped; only ("csv", "marketing_agency") among the pairs asked for
\* here has suggestions whose first is the e-mail mapping
suggest_field_mapping(connector_type, vertical, d) ==
    IF connector_type = "csv" /\ vertical = "marketing_agency"
    THEN Clamp(50, 99, field_mappings + d)
    ELSE field_mappings

\* csv_data[:5]
SampleRows == 5

\* csv_connector._detect_vertical: the files drawn hold 'email' or none of the
\* clinic and police indicators
_detect_vertical(file) == "marketing_agency"

\* csv_connector._parse_csv_content: the rows parsed, or the exception raised
\* when file_content.decode(encoding) or the csv reader fails
_parse_csv_content(file) ==
    IF file.decodes THEN [raised |-> FALSE, csv_data |-> file.rows]
    ELSE [raised |-> TRUE, csv_data |-> 0]

\* csv_connector.process_csv_upload: _store_raw_data builds its RawIngest
\* before the suggestions are asked for, and every exception is reported as
\* success False
process_csv_upload(file) ==
    LET parsed == _parse_csv_content(file)
        rows == parsed.csv_data
    IN  IF \/ parsed.raised
           \/ ~CtorOK(RawIngestColumns, {"tenant_id", "connector_id", "payload_json"})
        THEN [success |-> FALSE, records_processed |-> 0, sample_data |-> 0,
              suggests |-> FALSE]
        ELSE [success |-> TRUE, records_processed |-> rows,
              sample_data |-> IF rows < SampleRows THEN rows ELSE SampleRows,
              suggests |-> rows > 0]

\* POST /api/v1/connectors/{connector_id}/upload-csv
upload_csv(u, h, connector_id, file) ==
    LET kw == {"tenant_id", "connector_id", "payload_json"}
        result == process_csv_upload(file)
    IN  /\ request' = [Req("upload_csv", u, h, connector_id, file.name) EXCEPT
                         !.body = file]
        /\ IF h = NoHeader THEN Answer(Unprocessable)
           ELSE IF ~verify_tenant_access(Caller(u), h) THEN Answer(Forbidden)
           ELSE IF connector_id \notin Ids(OfTenant(connectors, IntOf(h)))
           THEN Answer(Resp(404, "Connector not found", {"connectors"}))
           ELSE IF Row(connectors, connector_id).type # "csv"
           THEN Answer(Resp(400, "Connector is not a CSV connector", {"connectors"}))
           \* the 400 raised for success False inside the try block is caught by
           \* the handler's except Exception
           ELSE IF ~result.success
           THEN Answer(Resp(500, "CSV upload failed", {"connectors"}))
           ELSE \E d \in Drifts :
                  LET suggested ==
                          IF result.suggests
                          THEN suggest_field_mapping("csv", _detect_vertical(file), d)
                          ELSE field_mappings
                  IN  /\ clock < MaxClock
                      /\ field_mappings' = suggested
                      /\ clock' = clock + 1
                      /\ IF ~CtorOK(RawIngestColumns, kw)
                         THEN /\ raw_ingest' = raw_ingest
                              /\ response' = Resp(500, "CSV upload failed", {"connectors"})
                         ELSE /\ raw_ingest' = raw_ingest \cup
                                   {[id |-> NextId(raw_ingest), tenant_id |-> IntOf(h),
                                     connector_id |-> connector_id,
                                     record_count |-> result.records_processed,
                                     data_rows |-> result.sample_data]}
                              /\ response' =
                                   [Resp(200, "CSV uploaded successfully",
                                         {"connectors", "raw_ingest"})
                                      EXCEPT !.success = TRUE,
                                             !.count = result.records_processed,
                                             !.rows = {NextId(raw_ingest)},
                                             !.result =
                                                 IF result.suggests
                                                 THEN [email |-> suggested] ELSE <<>>]
                      /\ UNCHANGED <<inflight, tenants, users, connectors,
                                     normalized_records, kpi_definitions, kpi_values,
                                     alerts, predictions, assistant_responses>>
                      /\ Observe

\* GET /api/v1/connectors/{connector_id}/map_preview
get_map_preview(u, h, connector_id) ==
    /\ request' = Req("get_map_preview", u, h, connector_id, "")
    /\ IF h = NoHeader THEN Answer(Unprocessable)
       ELSE IF ~verify_tenant_access(Caller(u), h) THEN Answer(Forbidden)
       ELSE IF connector_id \notin Ids(OfTenant(connectors, IntOf(h)))
       THEN Answer(Resp(404, "Connector not found", {"connectors"}))
       ELSE \E d \in Drifts :
              LET after == suggest_field_mapping(Row(connectors, connector_id).type,
                                                 "marketing_agency", d)
              IN  /\ after # field_mappings => clock < MaxClock
                  /\ field_mappings' = after
                  /\ clock' = IF after # field_mappings THEN clock + 1 ELSE clock
                  /\ response' = [Resp(200, "", {"connectors"}) EXCEPT !.count = after]
                  /\ UNCHANGED <<inflight, store, assistant_responses>>
                  /\ Observe

\* -------------------------------------------------------------- api/kpis.py
\* GET /api/v1/kpis/
list_kpis(u, h) ==
    LET read == {"id", "tenant_id", "name", "vertical", "formula_json", "window",
                 "created_at"}
    IN  /\ request' = Req("list_kpis", u, h, 0, "")
        /\ IF h = NoHeader THEN Answer(Unprocessable)
           ELSE IF ~verify_tenant_access(Caller(u), h) THEN Answer(Forbidden)
           ELSE LET found == OfTenant(kpi_definitions, IntOf(h))
                IN  IF found # {} /\ ~HasAttr(KPIDefinitionColumns, read)
                    THEN Answer(Resp(500, ServerError, {"kpi_definitions"}))
                    ELSE Answer([Resp(200, "", {"kpi_definitions"}) EXCEPT
                                   !.rows = Ids(found), !.count = Cardinality(found)])

\* POST /api/v1/kpis/
create_kpi(u, h, name) ==
    LET kw == {"tenant_id", "name", "vertical", "formula_json", "window"}
    IN  /\ request' = Req("create_kpi", u, h, 0, name)
        /\ IF h = NoHeader THEN Answer(Unprocessable)
           ELSE IF ~verify_tenant_access(Caller(u), h) THEN Answer(Forbidden)
           ELSE IF ~CtorOK(KPIDefinitionColumns, kw) THEN Answer(Resp(500, ServerError, {}))
           ELSE LET db_kpi == [id |-> NextId(kpi_definitions), tenant_id |-> IntOf(h),
                               name |-> name]
                IN  /\ clock < MaxClock
                    /\ kpi_definitions' = kpi_definitions \cup {db_kpi}
                    /\ clock' = clock + 1
                    /\ response' = [Resp(200, "", {"kpi_definitions"}) EXCEPT
                                      !.rows = {db_kpi.id}, !.tenant_id = db_kpi.tenant_id]
                    /\ UNCHANGED <<inflight, normalized_records, tenants, users,
                                   connectors, raw_ingest, kpi_values, alerts,
                                   predictions, services>>
                    /\ Observe

\* timedelta(days=30), a unit of the clock being a day
ThirtyDays == 30

\* db.add(obj); db.commit(): the row the table gets, its id from the sequence
Inserted(cols, rows, obj) ==
    [c \in ((DOMAIN obj) \cap cols) \cup {"id"} |->
        IF c = "id" THEN NextId(rows) ELSE obj[c]]

\* evaluate_kpi's db.add and db.commit, which an exception raised by
\* calculate_kpi skips
SavedAnyway(rows, result) == rows \cup {Inserted(KPIValueColumns, rows, result.kpi_value)}
Saved(rows, result) ==
    IF result.raised # "" THEN rows
    ELSE rows \cup {Inserted(KPIValueColumns, rows, result.kpi_value)}

\* POST /api/v1/kpis/{kpi_id}/evaluate
evaluate_kpi(u, h, kpi_id, window) ==
    /\ request' = [Req("evaluate_kpi", u, h, kpi_id, "") EXCEPT !.body = window]
    /\ IF h = NoHeader THEN Answer(Unprocessable)
       ELSE IF ~verify_tenant_access(Caller(u), h) THEN Answer(Forbidden)
       ELSE IF kpi_id \notin Ids(OfTenant(kpi_definitions, IntOf(h)))
       THEN Answer(Resp(404, "KPI not found", {"kpi_definitions"}))
       ELSE \E variation \in Variations :
              LET kpi == Row(kpi_definitions, kpi_id)
                  records == OfTenant(normalized_records, IntOf(h))
                  end_date == IF window.end_date = NULL THEN clock ELSE window.end_date
                  start_date == IF window.start_date = NULL THEN end_date - ThirtyDays
                                ELSE window.start_date
                  result == calculate_kpi(kpi, records, start_date, end_date, variation)
                  after == Saved(kpi_values, result)
              IN  /\ after # kpi_values => clock < MaxClock
                  /\ kpi_values' = after
                  /\ clock' = IF after # kpi_values THEN clock + 1 ELSE clock
                  /\ response' =
                       IF result.raised # ""
                       THEN Resp(500, "KPI evaluation failed",
                                 {"kpi_definitions", "normalized_records"})
                       ELSE [Resp(200, "", {"kpi_definitions", "normalized_records",
                                            "kpi_values"})
                               EXCEPT !.success = TRUE, !.rows = {NextId(kpi_values)},
                                      !.result = result.kpi_value]
                  /\ UNCHANGED <<inflight, tenants, users, connectors, raw_ingest,
                                 normalized_records, kpi_definitions, alerts,
                                 predictions, services>>
                  /\ Observe

\* GET /api/v1/kpis/{kpi_id}/values
get_kpi_values(u, h, kpi_id) ==
    /\ request' = Req("get_kpi_values", u, h, kpi_id, "")
    /\ IF h = NoHeader THEN Answer(Unprocessable)
       ELSE IF ~verify_tenant_access(Caller(u), h) THEN Answer(Forbidden)
       ELSE IF kpi_id \notin Ids(OfTenant(kpi_definitions, IntOf(h)))
       THEN Answer(Resp(404, "KPI not found", {"kpi_definitions"}))
       ELSE IF ~HasAttr(KPIValueColumns, {"kpi_id", "tenant_id", "timestamp"})
       THEN Answer(Resp(500, ServerError, {"kpi_definitions"}))
       ELSE LET found == {v \in OfTenant(kpi_values, IntOf(h)) : v.kpi_id = kpi_id}
            IN  Answer([Resp(200, "", {"kpi_definitions", "kpi_values"}) EXCEPT
                          !.rows = Ids(found), !.count = Cardinality(found)])

\* ------------------------------------------------------------ api/alerts.py
\* GET /api/v1/alerts/
list_alerts(u, h) ==
    LET read == {"id", "tenant_id", "kpi_id", "rule_json", "severity", "triggered_at",
                 "resolved_at", "details", "acknowledged", "acknowledged_by",
                 "acknowledged_at"}
    IN  /\ request' = Req("list_alerts", u, h, 0, "")
        /\ IF h = NoHeader THEN Answer(Unprocessable)
           ELSE IF ~verify_tenant_access(Caller(u), h) THEN Answer(Forbidden)
           ELSE LET found == OfTenant(alerts, IntOf(h))
                IN  IF found # {} /\ ~HasAttr(AlertColumns, read)
                    THEN Answer(Resp(500, ServerError, {"alerts"}))
                    ELSE Answer([Resp(200, "", {"alerts"}) EXCEPT
                                   !.rows = Ids(found), !.count = Cardinality(found)])

\* POST /api/v1/alerts/{alert_id}/ack
acknowledge_alert(u, h, alert_id, acknowledged) ==
    /\ request' = Req("acknowledge_alert", u, h, alert_id,
                      IF acknowledged THEN "true" ELSE "false")
    /\ IF h = NoHeader THEN Answer(Unprocessable)
       ELSE IF ~verify_tenant_access(Caller(u), h) THEN Answer(Forbidden)
       ELSE IF alert_id \notin Ids(OfTenant(alerts, IntOf(h)))
       THEN Answer(Resp(404, "Alert not found", {"alerts"}))
       ELSE LET alert == Row(alerts, alert_id)
                flagged == SetAttr(alert, "acknowledged", acknowledged)
                object == IF acknowledged
                          THEN SetAttr(SetAttr(flagged, "acknowledged_by", Caller(u).id),
                                       "acknowledged_at", clock)
                          ELSE flagged
                row == Persist(AlertColumns, object)
            IN  /\ row # alert => clock < MaxClock
                /\ alerts' = (alerts \ {alert}) \cup {row}
                /\ clock' = IF row # alert THEN clock + 1 ELSE clock
                /\ response' = [Resp(200, "", {"alerts"}) EXCEPT !.success = TRUE]
                /\ UNCHANGED <<inflight, normalized_records, tenants, users, connectors,
                               raw_ingest, kpi_definitions, kpi_values, predictions,
                               services>>
                /\ Observe

\* alert.resolved_at = datetime.utcnow()
ResolvedAndUnacknowledged(alert, now) ==
    SetAttr(SetAttr(alert, "resolved_at", now), "acknowledged_at", NULL)
Reopened(alert, now) ==
    SetAttr(alert, "resolved_at", IF alert.resolved_at = NULL THEN now ELSE NULL)
Resolved(alert, now) == SetAttr(alert, "resolved_at", now)

\* POST /api/v1/alerts/{alert_id}/resolve
resolve_alert(u, h, alert_id) ==
    /\ request' = Req("resolve_alert", u, h, alert_id, "")
    /\ IF h = NoHeader THEN Answer(Unprocessable)
       ELSE IF ~verify_tenant_access(Caller(u), h) THEN Answer(Forbidden)
       ELSE IF alert_id \notin Ids(OfTenant(alerts, IntOf(h)))
       THEN Answer(Resp(404, "Alert not found", {"alerts"}))
       ELSE LET alert == Row(alerts, alert_id)
                row == Persist(AlertColumns, Resolved(alert, clock))
            IN  /\ clock < MaxClock
                /\ alerts' = (alerts \ {alert}) \cup {row}
                /\ clock' = clock + 1
                /\ response' = [Resp(200, "", {"alerts"}) EXCEPT !.success = TRUE]
                /\ UNCHANGED <<inflight, normalized_records, tenants, users, connectors,
                               raw_ingest, kpi_definitions, kpi_values, predictions,
                               services>>
                /\ Observe

\* how many rules alert_engine.alert_rules has for a vertical
RuleCount(vertical) == Len(Get(alert_rules, vertical, <<>>))

\* POST /api/v1/alerts/generate-mock
\* each rule of the vertical triggers with probability 0.3: n of them do
generate_mock_alerts(u, h, vertical, n) ==
    LET kw == {"tenant_id", "rule_json", "severity", "details"}
    IN  /\ request' = Req("generate_mock_alerts", u, h, n, vertical)
        /\ n <= RuleCount(vertical)
        /\ IF h = NoHeader THEN Answer(Unprocessable)
           ELSE IF ~verify_tenant_access(Caller(u), h) THEN Answer(Forbidden)
           ELSE IF n = 0
           THEN Answer([Resp(200, "", {}) EXCEPT !.success = TRUE])
           ELSE IF ~CtorOK(AlertColumns, kw)
           THEN Answer(Resp(500, "Failed to generate mock alerts", {}))
           ELSE /\ clock < MaxClock
                /\ alerts' = alerts \cup
                     {[id |-> NextId(alerts) + i, tenant_id |-> IntOf(h),
                       status |-> "active", acknowledged_at |-> NULL,
                       resolved_at |-> NULL] : i \in 0..(n - 1)}
                /\ clock' = clock + 1
                /\ response' = [Resp(200, "", {"alerts"}) EXCEPT
                                  !.success = TRUE, !.count = n]
                /\ UNCHANGED <<inflight, normalized_records, tenants, users, connectors,
                               raw_ingest, kpi_definitions, kpi_values, predictions,
                               services>>
                /\ Observe

\* ------------------------------------------------------- api/predictions.py
PredictionRead ==
    {"id", "tenant_id", "model_name", "input_snapshot", "output_json", "created_at"}

\* POST /api/v1/predictions/run
run_forecast(u, h, kpi_id, method) ==
    LET kw == {"tenant_id", "model_name", "input_snapshot", "output_json"}
    IN  /\ request' = Req("run_forecast", u, h, kpi_id, method)
        /\ IF h = NoHeader THEN Answer(Unprocessable)
           ELSE IF ~verify_tenant_access(Caller(u), h) THEN Answer(Forbidden)
           ELSE IF kpi_id \notin Ids(OfTenant(kpi_definitions, IntOf(h)))
           THEN Answer(Resp(404, "KPI not found", {"kpi_definitions"}))
           ELSE IF ~HasAttr(KPIValueColumns, {"kpi_id", "tenant_id", "timestamp"})
           THEN Answer(Resp(500, ServerError, {"kpi_definitions"}))
           ELSE IF ~CtorOK(PredictionColumns, kw)
           THEN Answer(Resp(500, ServerError, {"kpi_definitions", "kpi_values"}))
           ELSE LET prediction ==
                        [id |-> NextId(predictions), tenant_id |-> IntOf(h),
                         model_name |-> IF method = "ensemble" THEN "ensemble"
                                        ELSE "mock_forecast"]
                IN  /\ clock < MaxClock
                    /\ predictions' = predictions \cup {prediction}
                    /\ clock' = clock + 1
                    /\ response' =
                         [Resp(200, "", {"kpi_definitions", "kpi_values", "predictions"})
                            EXCEPT !.rows = {prediction.id},
                                   !.tenant_id = prediction.tenant_id]
                    /\ UNCHANGED <<inflight, normalized_records, tenants, users,
                                   connectors, raw_ingest, kpi_definitions, kpi_values,
                                   alerts, services>>
                    /\ Observe

\* GET /api/v1/predictions/
list_predictions(u, h) ==
    /\ request' = Req("list_predictions", u, h, 0, "")
    /\ IF h = NoHeader THEN Answer(Unprocessable)
       ELSE IF ~verify_tenant_access(Caller(u), h) THEN Answer(Forbidden)
       ELSE LET found == OfTenant(predictions, IntOf(h))
            IN  IF found # {} /\ ~HasAttr(PredictionColumns, PredictionRead)
                THEN Answer(Resp(500, ServerError, {"predictions"}))
                ELSE Answer([Resp(200, "", {"predictions"}) EXCEPT
                               !.rows = Ids(found), !.count = Cardinality(found)])

\* GET /api/v1/predictions/{prediction_id}
get_prediction(u, h, prediction_id) ==
    /\ request' = Req("get_prediction", u, h, prediction_id, "")
    /\ IF h = NoHeader THEN Answer(Unprocessable)
       ELSE IF ~verify_tenant_access(Caller(u), h) THEN Answer(Forbidden)
       ELSE IF prediction_id \notin Ids(OfTenant(predictions, IntOf(h)))
       THEN Answer(Resp(404, "Prediction not found", {"predictions"}))
       ELSE IF ~HasAttr(PredictionColumns, PredictionRead)
       THEN Answer(Resp(500, ServerError, {"predictions"}))
       ELSE Answer([Resp(200, "", {"predictions"}) EXCEPT
                      !.rows = {prediction_id}, !.tenant_id = IntOf(h)])

\* ------------------------------------------------------------- api/graph.py
\* the four graph endpoints answer from graph_service's mock data
GraphAnswer(op, u, h) ==
    /\ request' = Req(op, u, h, 0, "")
    /\ IF h = NoHeader THEN Answer(Unprocessable)
       ELSE IF ~verify_tenant_access(Caller(u), h) THEN Answer(Forbidden)
       ELSE Answer([Resp(200, "", {}) EXCEPT !.success = TRUE])

\* POST /api/v1/graph/query
query_graph(u, h) == GraphAnswer("query_graph", u, h)
\* GET /api/v1/graph/statistics
get_graph_statistics(u, h) == GraphAnswer("get_graph_statistics", u, h)
\* GET /api/v1/graph/nodes
get_graph_nodes(u, h) == GraphAnswer("get_graph_nodes", u, h)
\* GET /api/v1/graph/edges
get_graph_edges(u, h) == GraphAnswer("get_graph_edges", u, h)

\* --------------------------------------------------------------- api/ask.py
\* llm_service.process_ai_query: the first category with a pattern inside the
\* question answers, after its stored confidence drifted by d and was clamped
process_ai_query(question, d) ==
    IF question = "alert" THEN Clamp(30, 95, assistant_responses + d)
    ELSE assistant_responses

\* POST /api/v1/ask
ask_assistant(u, h, question) ==
    /\ request' = Req("ask_assistant", u, h, 0, question)
    /\ IF h = NoHeader THEN Answer(Unprocessable)
       ELSE IF ~verify_tenant_access(Caller(u), h) THEN Answer(Forbidden)
       ELSE \E d \in Drifts :
              LET after == process_ai_query(question, d)
              IN  /\ after # assistant_responses => clock < MaxClock
                  /\ assistant_responses' = after
                  /\ clock' = IF after # assistant_responses THEN clock + 1 ELSE clock
                  /\ response' = [Resp(200, "", {}) EXCEPT
                                    !.count = IF question = "alert" THEN after ELSE 50]
                  /\ UNCHANGED <<inflight, store, field_mappings>>
                  /\ Observe

\* ----------------------------------------------------------- api/tenants.py
\* Tenant.config_json is Column(Text, default="{}"): the value read back is a str
TenantConfigJsonType == "str"

\* GET /api/v1/tenants/{tenant_id}; the header is optional and never read
get_tenant(u, h, tenant_id) ==
    /\ request' = Req("get_tenant", u, h, tenant_id, "")
    /\ IF ~verify_tenant_access(Caller(u), Str(tenant_id)) THEN Answer(Forbidden)
       ELSE IF tenant_id \notin Ids(tenants)
       THEN Answer(Resp(404, "Tenant not found", {"tenants"}))
       \* TenantResponse.config_json is declared dict
       ELSE IF TenantConfigJsonType # "dict"
       THEN Answer(Resp(500, ServerError, {"tenants"}))
       ELSE Answer([Resp(200, "", {"tenants"}) EXCEPT
                      !.rows = {tenant_id}, !.tenant_id = tenant_id])

\* --------------------------------------------------------- api/dashboard.py
\* GET /api/v1/dashboard/{tenant_id}
get_dashboard(u, h, tenant_id) ==
    /\ request' = Req("get_dashboard", u, h, tenant_id, "")
    /\ IF h = NoHeader THEN Answer(Unprocessable)
       ELSE IF ~verify_tenant_access(Caller(u), Str(tenant_id)) THEN Answer(Forbidden)
       ELSE IF Str(tenant_id) # h
       THEN Answer(Resp(400, "X-Tenant-ID header mismatch", {}))
       ELSE LET kpis == OfTenant(kpi_definitions, tenant_id)
                active_alerts == {a \in OfTenant(alerts, tenant_id) : a.resolved_at = NULL}
            IN  IF kpis # {} /\ ~HasAttr(KPIValueColumns, {"kpi_id", "timestamp"})
                THEN Answer(Resp(500, ServerError, {"kpi_definitions"}))
                ELSE IF active_alerts # {}
                        /\ ~HasAttr(AlertColumns, {"rule_json", "severity", "triggered_at",
                                                   "details"})
                THEN Answer(Resp(500, ServerError, {"kpi_definitions", "kpi_values",
                                                    "alerts"}))
                ELSE Answer([Resp(200, "", {"kpi_definitions", "kpi_values", "alerts",
                                            "tasks"})
                               EXCEPT !.rows = Ids(kpis) \cup Ids(active_alerts),
                                      !.tenant_id = tenant_id])

\* ------------------------------------------------- calls of the services
\* the objects a caller can hand to the engines: instances of the declared
\* classes, alone or with the attribute the engine reads set by hand
KpiDefinitionObjects ==
    LET rows == {[id |-> 1, tenant_id |-> 1, name |-> n] : n \in DOMAIN Spelling}
    IN  rows \cup {SetAttr(r, "vertical", v) : r \in rows, v \in Verticals}
KpiValueObjects ==
    LET rows == {[id |-> 1, tenant_id |-> 1, kpi_definition_id |-> 1, value |-> v]
                   : v \in Values}
    IN  rows \cup {SetAttr(r, "timestamp", 1) : r \in rows}

\* alert_engine._evaluate_condition(value, condition)
EvaluateCondition(value, condition) ==
    /\ request' = Req("_evaluate_condition", 0, NoHeader, value, Join(condition))
    /\ Answer([Resp(0, "", {}) EXCEPT !.success = _evaluate_condition(value, condition)])

\* alert_engine.check_kpi_alerts(kpi_value, kpi_definition)
CheckKpiAlerts(kpi_value, kpi_definition) ==
    /\ request' = [Req("check_kpi_alerts", 0, NoHeader, kpi_value.value, "") EXCEPT
                     !.body = [kpi_value |-> kpi_value,
                               kpi_definition |-> kpi_definition]]
    /\ LET result == check_kpi_alerts(kpi_value, kpi_definition)
       IN  Answer([Resp(0, result.raised, {}) EXCEPT
                     !.success = result.raised = "",
                     !.count = Cardinality(result.alerts),
                     !.result = result.alerts])

\* kpi_engine.calculate_kpi(kpi_definition, normalized_records, start_date, end_date)
CalculateKpi(kpi_definition, window, variation) ==
    /\ request' = [Req("calculate_kpi", 0, NoHeader, 0, "") EXCEPT
                     !.body = [kpi_definition |-> kpi_definition, window |-> window]]
    /\ LET result == calculate_kpi(kpi_definition,
                                   OfTenant(normalized_records, kpi_definition.tenant_id),
                                   window.start_date, window.end_date, variation)
       IN  Answer([Resp(0, result.raised, {}) EXCEPT
                     !.success = result.raised = "",
                     !.result = result.kpi_value])

\* the RawIngest objects a caller can hand to normalize_csv_data: an instance
\* as the class declares it, and instances with payload_json set by hand
RawIngestObjects ==
    LET row == [id |-> 1, tenant_id |-> 1, connector_id |-> 1]
    IN  {row} \cup {SetAttr(row, "payload_json", [data |-> b]) : b \in Batches}
            \cup {SetAttr(row, "payload_json", [metadata |-> 0])}

\* csv_connector.normalize_csv_data(raw_ingest, mapping_config, tenant_id), run
\* twice on the same object; nothing in it assigns to raw_ingest or to a row
NormalizeCsvData(ingest, mapping_config) ==
    /\ request' = [Req("normalize_csv_data", 0, NoHeader, 0, "") EXCEPT
                     !.body = [raw_ingest |-> ingest, mapping_config |-> mapping_config]]
    /\ LET first == normalize_csv_data(ingest, mapping_config, ingest.tenant_id)
           second == normalize_csv_data(ingest, mapping_config, ingest.tenant_id)
       IN  Answer([Resp(0, first.raised, {}) EXCEPT
                     !.success = first.raised = "" /\ second.raised = "",
                     !.count = Len(first.records),
                     !.result = [first |-> first.records, second |-> second.records,
                                 raw_ingest |-> ingest]])

EngineCall ==
    \/ \E v \in Values, c \in WellFormed \cup Malformed : EvaluateCondition(v, c)
    \/ \E v \in KpiValueObjects, k \in KpiDefinitionObjects : CheckKpiAlerts(v, k)
    \/ \E k \in KpiDefinitionObjects, w \in Windows, d \in Variations :
          CalculateKpi(k, w, d)
    \/ \E r \in RawIngestObjects, m \in MappingConfigs : NormalizeCsvData(r, m)

AuthRequest ==
    \/ \E e \in Emails, p \in Passwords : register(e, p)
    \/ \E e \in Emails, p \in Passwords : login(e, p)

AlertRequest ==
    \/ \E u \in Ids(users), h \in Headers : list_alerts(u, h)
    \/ \E u \in Ids(users), h \in Headers, i \in PathIds, a \in BOOLEAN :
          acknowledge_alert(u, h, i, a)
    \/ \E u \in Ids(users), h \in Headers, i \in PathIds : resolve_alert(u, h, i)
    \/ \E u \in Ids(users), h \in Headers, v \in Verticals, n \in TriggeredCounts :
          generate_mock_alerts(u, h, v, n)

ConnectorRequest ==
    \/ \E u \in Ids(users), h \in Headers, t \in ConnectorTypes : create_connector(u, h, t)
    \/ \E u \in Ids(users), h \in Headers : list_connectors(u, h)
    \/ \E u \in Ids(users), h \in Headers, i \in PathIds : sync_connector(u, h, i)
    \/ \E u \in Ids(users), h \in Headers, i \in PathIds, f \in CsvFiles :
          upload_csv(u, h, i, f)
    \/ \E u \in Ids(users), h \in Headers, i \in PathIds : get_map_preview(u, h, i)

KpiRequest ==
    \/ \E u \in Ids(users), h \in Headers : list_kpis(u, h)
    \/ \E u \in Ids(users), h \in Headers, n \in KpiNames : create_kpi(u, h, n)
    \/ \E u \in Ids(users), h \in Headers, i \in PathIds, w \in Windows :
          evaluate_kpi(u, h, i, w)
    \/ \E u \in Ids(users), h \in Headers, i \in PathIds : get_kpi_values(u, h, i)

OtherRequest ==
    \/ \E u \in Ids(users), h \in Headers, i \in PathIds, m \in ForecastMethods :
          run_forecast(u, h, i, m)
    \/ \E u \in Ids(users), h \in Headers : list_predictions(u, h)
    \/ \E u \in Ids(users), h \in Headers, i \in PathIds : get_prediction(u, h, i)
    \/ \E u \in Ids(users), h \in Headers : query_graph(u, h)
    \/ \E u \in Ids(users), h \in Headers : get_graph_statistics(u, h)
    \/ \E u \in Ids(users), h \in Headers : get_graph_nodes(u, h)
    \/ \E u \in Ids(users), h \in Headers : get_graph_edges(u, h)
    \/ \E u \in Ids(users), h \in Headers, q \in Questions : ask_assistant(u, h, q)
    \/ \E u \in Ids(users), h \in Headers, i \in PathIds : get_tenant(u, h, i)
    \/ \E u \in Ids(users), h \in Headers, i \in PathIds : get_dashboard(u, h, i)

\* a start with time left for MaxClock - 1 writes, and one with time left for one
InitEarly == Start(1)
Init == Start(MaxClock - 1)

\* any request of the API
Next ==
    \/ AuthRequest
    \/ AlertRequest
    \/ ConnectorRequest
    \/ KpiRequest
    \/ OtherRequest

Spec == Init /\ [][Next]_vars

\* the auth router alone
NextAuth == AuthRequest
SpecAuth == InitEarly /\ [][NextAuth]_vars

\* the auth and alerts routers
NextAlerts ==
    \/ AuthRequest
    \/ AlertRequest
SpecAlerts == InitEarly /\ [][NextAlerts]_vars

\* the auth and connectors routers
NextConnectors ==
    \/ AuthRequest
    \/ ConnectorRequest
SpecConnectors == InitEarly /\ [][NextConnectors]_vars

\* the engines called directly
NextEngine == EngineCall
SpecEngine == InitEarly /\ [][NextEngine]_vars

\* register requests in concurrent server processes
NextRegister ==
    \/ \E p \in Procs, e \in Emails, w \in Passwords : register_query(p, e, w)
    \/ \E p \in Procs : register_commit(p)
SpecRegister == InitEarly /\ [][NextRegister]_vars

\* ------------------------------------------------------------------ claims
\* the endpoints that declare x_tenant_id: str = Header(...) and check it
\* against the caller
HeaderOps ==
    {"create_connector", "list_connectors", "sync_connector", "upload_csv",
     "get_map_preview", "list_kpis", "create_kpi", "evaluate_kpi", "get_kpi_values",
     "list_alerts", "acknowledge_alert", "resolve_alert", "generate_mock_alerts",
     "run_forecast", "list_predictions", "get_prediction", "query_graph",
     "get_graph_statistics", "get_graph_nodes", "get_graph_edges", "ask_assistant"}
\* the endpoints that carry the tenant in the path
PathOps == {"get_tenant", "get_dashboard"}
\* the tenant of the user who sent the request
Home == Row(users, request.user).tenant_id
Mismatch == request.header # NoHeader /\ request.header # Str(Home)

\* C1: on every endpoint that takes X-Tenant-ID (connectors, kpis, alerts,
\* predictions, graph, ask) a caller of tenant A who sends X-Tenant-ID = B,
\* B # A, is answered 403 "Access denied to this tenant"; no table has been
\* queried and no row written, and the answer is this one whatever B and the
\* addressed id are.
C1_MismatchIsForbidden ==
    (request.op \in HeaderOps /\ Mismatch)
        => /\ response = Resp(403, "Access denied to this tenant", {})
           /\ written = {}

\* C1's case: user 2 (tenant 2) acknowledges, under X-Tenant-ID "1", an alert
\* that exists in tenant 1
C1_Witness ==
    /\ request.op = "acknowledge_alert"
    /\ request.user = 2
    /\ request.header = "1"
    /\ request.id \in Ids(OfTenant(alerts, 1))
    /\ response.status = 403

\* C2 (as the spec states it): a list endpoint called with the caller's own
\* tenant returns exactly the rows of that tenant; here for the connectors,
\* whose rows the API itself creates.
C2_ListReturnsTenantRows ==
    (request.op = "list_connectors" /\ request.header = Str(Home))
        => /\ response.status = 200
           /\ response.rows = Ids(OfTenant(connectors, Home))

\* C3 (as the spec states it): a tenant-scoped call without X-Tenant-ID is
\* answered 422 and reads and writes nothing, GET /tenants/{id} and
\* GET /dashboard/{id} included.
C3_MissingHeaderIs422 ==
    (request.op \in HeaderOps \cup PathOps /\ request.header = NoHeader)
        => /\ response.status = 422
           /\ response.touched = {}
           /\ written = {}

\* C4 (as the spec states it): on the endpoints that carry the tenant in the
\* path, a caller of tenant A who sends path A and X-Tenant-ID B, B # A, is
\* answered 403 and no tenant data.
C4_PathEndpointsRefuseMismatch ==
    (request.op \in PathOps /\ request.id = Home /\ Mismatch)
        => /\ response.status = 403
           /\ response.touched = {}

\* the endpoints that address one row by id, the table of the row and the
\* detail of their 404
IdTable ==
    [sync_connector |-> connectors, upload_csv |-> connectors,
     get_map_preview |-> connectors, evaluate_kpi |-> kpi_definitions,
     get_kpi_values |-> kpi_definitions, run_forecast |-> kpi_definitions,
     acknowledge_alert |-> alerts, resolve_alert |-> alerts,
     get_prediction |-> predictions]
IdTableName ==
    [sync_connector |-> "connectors", upload_csv |-> "connectors",
     get_map_preview |-> "connectors", evaluate_kpi |-> "kpi_definitions",
     get_kpi_values |-> "kpi_definitions", run_forecast |-> "kpi_definitions",
     acknowledge_alert |-> "alerts", resolve_alert |-> "alerts",
     get_prediction |-> "predictions"]
NotFoundDetail ==
    [sync_connector |-> "Connector not found", upload_csv |-> "Connector not found",
     get_map_preview |-> "Connector not found", evaluate_kpi |-> "KPI not found",
     get_kpi_values |-> "KPI not found", run_forecast |-> "KPI not found",
     acknowledge_alert |-> "Alert not found", resolve_alert |-> "Alert not found",
     get_prediction |-> "Prediction not found"]

\* C5: under the caller's own X-Tenant-ID, a request for an id that is no row
\* of the caller's tenant is answered 404 with the endpoint's one detail,
\* after a look at the endpoint's table only, whether the id is a row of
\* another tenant or of nobody; no row of any tenant and no service state
\* changes.
C5_ForeignIdIsNotFound ==
    (/\ request.op \in DOMAIN IdTable
     /\ request.header = Str(Home)
     /\ request.id \notin Ids({r \in IdTable[request.op] : r.tenant_id = Home}))
        => /\ response = Resp(404, NotFoundDetail[request.op], {IdTableName[request.op]})
           /\ written = {}

\* C5's case: user 2 (tenant 2), under its own header, resolves an alert of
\* tenant 1
C5_Witness ==
    /\ request.op = "resolve_alert"
    /\ request.user = 2
    /\ request.header = "2"
    /\ \E a \in alerts : a.id = request.id /\ a.tenant_id = 1
    /\ response.status = 404

\* C6: a register request whose e-mail an existing User row already has is
\* answered 400 "Email already registered", and the Tenant rows and the User
\* rows after it are those before it.
C6_DuplicateEmailRefused ==
    [][(request'.op = "register" /\ \E u \in users : u.email = request'.arg)
          => /\ response'.status = 400
             /\ response'.detail = "Email already registered"
             /\ response'.token = NoToken
             /\ tenants' = tenants
             /\ users' = users]_vars

\* C6's case: a registration refused for an e-mail that a User row has
C6_Witness ==
    /\ request.op = "register"
    /\ \E u \in users : u.email = request.arg
    /\ response.status = 400
    /\ written = {}

\* C7: a login for an e-mail without User row, or with a password that does
\* not verify against the row of the e-mail, is answered 401 "Incorrect email
\* or password" in both cases, carries no token and changes no row.
C7_LoginFailureIsUniform ==
    (/\ request.op = "login"
     /\ ~\E u \in users : /\ u.email = request.arg
                          /\ u.hashed_password = get_password_hash(request.id))
        => /\ response = Resp(401, "Incorrect email or password", {"users"})
           /\ written = {}

\* C7's case: a wrong password for an e-mail that has a User row
C7_Witness ==
    /\ request.op = "login"
    /\ \E u \in users : /\ u.email = request.arg
                        /\ u.hashed_password # get_password_hash(request.id)
    /\ response.status = 401

\* C8: after any sequence of register and login requests every user belongs
\* to exactly one tenant and user ids are unique; a successful register adds
\* exactly one Tenant row and exactly one User row, of that tenant; and the
\* token of a successful register or login carries, as decimal strings, the
\* (id, tenant_id) of an existing User row, the pair the body returns as
\* user_id and tenant_id.
C8_UsersTenantsTokens ==
    [][/\ \A u \in users' : Cardinality({t \in tenants' : t.id = u.tenant_id}) = 1
       /\ \A u, w \in users' : u.id = w.id => u = w
       /\ (request'.op = "register" /\ response'.status = 200)
            => \E t \in tenants' \ tenants, u \in users' \ users :
                 /\ tenants' = tenants \cup {t}
                 /\ users' = users \cup {u}
                 /\ u.tenant_id = t.id
                 /\ u.email = request'.arg
                 /\ response'.user_id = u.id
       /\ (request'.op \in {"register", "login"} /\ response'.status = 200)
            => \E u \in users' :
                 /\ u.email = request'.arg
                 /\ response'.token = [sub |-> Str(u.id), tenant_id |-> Str(u.tenant_id)]
                 /\ response'.user_id = u.id
                 /\ response'.tenant_id = u.tenant_id]_vars

\* C8's case: a second tenant has registered and one of the users has then
\* logged in
C8_Witness ==
    /\ request.op = "login"
    /\ response.status = 200
    /\ Cardinality(tenants) = 2
    /\ clock > 2

\* C9 (as the spec states it): after acknowledge(true) on an alert of the
\* caller's tenant the alert's row holds acknowledged = true, acknowledged_by =
\* the caller's id and an acknowledged_at.
C9_AcknowledgeSetsFlag ==
    (/\ request.op = "acknowledge_alert"
     /\ request.arg = "true"
     /\ response.status = 200)
        => LET alert == Row(alerts, request.id)
           IN  /\ alert.acknowledged_at # NULL
               /\ "acknowledged" \in DOMAIN alert
               /\ "acknowledged_by" \in DOMAIN alert

\* C10: resolve on an alert of the caller's tenant succeeds whether or not the
\* alert has been acknowledged; the alert's row afterwards is the row before
\* with resolved_at set to the time of the request, and every other alert row
\* is the same.
C10_ResolveFromAnyState ==
    [][(/\ request'.op = "resolve_alert"
        /\ request'.header = Str(Row(users, request'.user).tenant_id)
        /\ \E a \in alerts : /\ a.id = request'.id
                             /\ a.tenant_id = Row(users, request'.user).tenant_id)
          => LET alert == Row(alerts, request'.id)
             IN  /\ response'.status = 200
                 /\ response'.success
                 /\ clock # NULL
                 /\ alerts' = (alerts \ {alert}) \cup
                                {[alert EXCEPT !.resolved_at = clock]}]_vars

\* C10's case: an alert that had been acknowledged is resolved
C10_Witness ==
    /\ request.op = "resolve_alert"
    /\ response.status = 200
    /\ Row(alerts, request.id).acknowledged_at # NULL
    /\ Row(alerts, request.id).resolved_at # NULL

\* C11: over any sequence of list, acknowledge, resolve and generate-mock
\* requests no alert id ever leaves the alerts table, and an alert whose
\* resolved_at is set keeps a resolved_at that is set.
C11_AlertsKeptResolutionsStay ==
    [][/\ Ids(alerts) \subseteq Ids(alerts')
       /\ \A a \in alerts :
            a.resolved_at # NULL
                => \A b \in alerts' : b.id = a.id => b.resolved_at # NULL]_vars

\* C11's case: an alert that was resolved has then been acknowledged, and is
\* still there and still resolved
C11_Witness ==
    /\ request.op = "acknowledge_alert"
    /\ response.status = 200
    /\ \E a \in alerts : /\ a.id = request.id
                         /\ a.resolved_at # NULL
                         /\ a.acknowledged_at > a.resolved_at

\* the alerts the claim expects of check_kpi_alerts for the names and the
\* values drawn: rule "Low Conversion Rate Alert" is lead_conversion_rate
\* under 10, rule "High Cost Per Lead Alert" is cost_per_lead over 50
ExpectedAlerts(name, vertical, value) ==
    IF vertical = "marketing_agency" /\ name = "Lead Conversion Rate" /\ value < 10 * Unit
    THEN {"Low Conversion Rate Alert"}
    ELSE IF vertical = "marketing_agency" /\ name = "Cost Per Lead" /\ value > 50 * Unit
    THEN {"High Cost Per Lead Alert"}
    ELSE {}

\* C12 (as the spec states it): 'value < T' is true exactly for the values
\* under T and 'value > T' exactly for the values over T, and
\* check_kpi_alerts returns one alert for each rule of the KPI's vertical that
\* is about the KPI's normalised name and whose condition is true, and none
\* otherwise.
C12_ThresholdsAndRuleAlerts ==
    /\ \A T \in Thresholds :
         /\ (request.op = "_evaluate_condition" /\ request.arg = "value < " \o Str(T))
               => (response.success <=> request.id < T * Unit)
         /\ (request.op = "_evaluate_condition" /\ request.arg = "value > " \o Str(T))
               => (response.success <=> request.id > T * Unit)
    /\ request.op = "check_kpi_alerts"
         => LET kpi == request.body.kpi_definition
            IN  /\ response.detail = ""
                /\ "vertical" \in DOMAIN kpi
                      => response.result =
                           ExpectedAlerts(kpi.name, kpi.vertical, request.id)

\* C13 (as the spec states it): a condition that is not one left-hand side,
\* one operator of <, >, == and a numeric right-hand side is false for every
\* value.
C13_MalformedNeverMatches ==
    (/\ request.op = "_evaluate_condition"
     /\ request.arg \in {Join(c) : c \in Malformed})
        => ~response.success

\* an evaluate request under the caller's own X-Tenant-ID for a KPI of the
\* caller's tenant
OwnKpiEvaluated ==
    /\ request.op = "evaluate_kpi"
    /\ request.header = Str(Home)
    /\ request.id \in Ids(OfTenant(kpi_definitions, Home))

\* C14 (as the spec states it): evaluate on a KPI of the caller's tenant
\* persists a KPIValue, and when that value satisfies a threshold rule of the
\* KPI's name the same request has persisted an unresolved Alert of the
\* caller's tenant.
C14_EvaluationRaisesAlert ==
    OwnKpiEvaluated
        => /\ response.status = 200
           /\ response.rows \subseteq Ids(kpi_values)
           /\ ExpectedAlerts(Row(kpi_definitions, request.id).name, "marketing_agency",
                             response.result.value) # {}
                 => /\ "alerts" \in written
                    /\ \E a \in OfTenant(alerts, Home) : a.resolved_at = NULL

\* the (vertical, name) pairs, among those drawn, that kpi_formulas has an
\* entry for
HasFormula(kpi) ==
    /\ "vertical" \in DOMAIN kpi
    /\ kpi.vertical = "marketing_agency"
    /\ kpi.name \in {"Lead Conversion Rate", "Cost Per Lead"}

\* C15 (as the spec states it): calculate_kpi returns, for every
\* KPIDefinition, a KPIValue with a value and the definition's tenant_id and
\* id, whose provenance.calculation_method is "formula_based" when the
\* definition's (vertical, normalised name) has a formula entry and
\* "mock_generated" when it has none.
C15_CalculateNeverFails ==
    request.op = "calculate_kpi"
        => LET kpi == request.body.kpi_definition
           IN  /\ response.detail = ""
               /\ response.result.value # NULL
               /\ response.result.tenant_id = kpi.tenant_id
               /\ response.result.kpi_id = kpi.id
               /\ response.result.provenance.calculation_method =
                     IF HasFormula(kpi) THEN "formula_based" ELSE "mock_generated"

\* C16 (as the spec states it): the KPIValue evaluate produces records, as
\* provenance.source_records, the number of the tenant's normalized records
\* whose time lies in the requested window [start_date, end_date).
C16_WindowedRecordCount ==
    OwnKpiEvaluated
        => LET end_date == IF request.body.end_date = NULL THEN clock
                           ELSE request.body.end_date
               start_date == IF request.body.start_date = NULL THEN end_date - ThirtyDays
                             ELSE request.body.start_date
               inside == {r \in OfTenant(normalized_records, Home) :
                            start_date <= r.created_at /\ r.created_at < end_date}
           IN  /\ response.status = 200
               /\ response.result.provenance.source_records = Cardinality(inside)

OwnCsvUpload ==
    /\ request.op = "upload_csv"
    /\ request.header = Str(Home)
    /\ \E c \in OfTenant(connectors, Home) : c.id = request.id /\ c.type = "csv"

\* C18 (as the spec states it): an upload of a file of N >= 1 data rows to a
\* csv connector of the caller's tenant is answered 200 and has stored one new
\* RawIngest whose record_count is N; when 'email' is among the columns the
\* suggestions hold the email mapping with a confidence of at least 0.5.
C18_UploadStoresOneIngest ==
    (OwnCsvUpload /\ request.body.rows >= 1)
        => /\ response.status = 200
           /\ written = {"raw_ingest"}
           /\ \E r \in raw_ingest : /\ response.rows = {r.id}
                                    /\ r.tenant_id = Home
                                    /\ r.record_count = request.body.rows
           /\ request.body.email => response.result.email >= 50

\* C19 (as the spec states it): the RawIngest an upload stores holds every
\* parsed row of the file, as many data rows as its record_count says, for a
\* file of any number of rows.
C19_IngestHoldsEveryRow ==
    (OwnCsvUpload /\ request.body.decodes)
        => /\ response.status = 200
           /\ \E r \in raw_ingest : /\ response.rows = {r.id}
                                    /\ r.record_count = request.body.rows
                                    /\ r.data_rows = r.record_count

C21_BadFileIs400 ==
    /\ (OwnCsvUpload /\ ~request.body.decodes)
          => /\ response.status = 400
             /\ "raw_ingest" \notin written
    /\ (/\ request.op = "upload_csv"
        /\ request.header = Str(Home)
        /\ \E c \in OfTenant(connectors, Home) : c.id = request.id /\ c.type # "csv")
          => /\ response.status = 400
             /\ written = {}

\* C22 (as the spec states it): two runs of normalize_csv_data on the same raw
\* ingest and mapping each return a list; the lists have the same length and
\* their records agree in entity_type, canonical values, row_index and original
\* data, and the raw ingest is what it was.
C22_NormalizeIdempotent ==
    request.op = "normalize_csv_data"
        => LET first == response.result.first
               second == response.result.second
           IN  /\ response.success
               /\ Len(first) = Len(second)
               /\ \A i \in DOMAIN first :
                    /\ first[i].entity_type = second[i].entity_type
                    /\ first[i].canonical_json = second[i].canonical_json
                    /\ first[i].source_refs_json.row_index
                         = second[i].source_refs_json.row_index
                    /\ first[i].source_refs_json.original_data
                         = second[i].source_refs_json.original_data
               /\ response.result.raw_ingest = request.body.raw_ingest

\* the source field of the pair of mappings that sets target t for this row
SourceOf(row, mappings, t) ==
    LET used == {i \in DOMAIN mappings :
                    mappings[i][1] \in DOMAIN row /\ Join(mappings[i][2]) = t}
    IN  mappings[CHOOSE i \in used : \A j \in used : j <= i][1]

\* C23 (as the spec states it): for every batch normalize returns one
\* NormalizedRecord per row, in the order of the rows; an amount or a date that
\* does not parse is kept as the str it was, while the other fields of the row
\* carry their transformed values.
C23_OneRecordPerRowFailuresKept ==
    (/\ request.op = "normalize_csv_data"
     /\ "payload_json" \in DOMAIN request.body.raw_ingest
     /\ "data" \in DOMAIN request.body.raw_ingest.payload_json)
        => LET data == request.body.raw_ingest.payload_json.data
               mappings == Get(request.body.mapping_config, "mappings", <<>>)
               records == response.result.first
           IN  /\ response.success
               /\ Len(records) = Len(data)
               /\ \A i \in DOMAIN records :
                    LET canonical == records[i].canonical_json
                    IN  /\ records[i].source_refs_json.row_index = i - 1
                        /\ records[i].source_refs_json.original_data = data[i]
                        /\ \A t \in DOMAIN canonical :
                             LET raw == data[i][SourceOf(data[i], mappings, t)]
                             IN  canonical[t] =
                                   IF raw \in BadAmounts \cup BadDates
                                   THEN StrValue(raw)
                                   ELSE IF raw = GoodAmount THEN FloatValue(1250500)
                                   ELSE IF raw = GoodDate
                                   THEN StrValue(GoodDate \o <<"T", "0", "0", ":", "0", "0",
                                                                ":", "0", "0">>)
                                   ELSE IF raw = <<>> THEN None
                                   ELSE StrValue(lower(UpperEmail))

\* C24 (as the spec states it): every sync or upload request that reports
\* success has added exactly one RawIngest row, whatever the type of the
\* connector, and no request changes or removes a RawIngest row.
C24_OneIngestPerSync ==
    [][/\ raw_ingest \subseteq raw_ingest'
       /\ (request'.op \in {"sync_connector", "upload_csv"} /\ response'.success)
            => Cardinality(raw_ingest' \ raw_ingest) = 1]_vars

\* C25 (as the spec states it): after a sync or an upload that reports success
\* the connector addressed carries a last-sync time, that of the request; it is
\* not null.
C25_SyncSetsLastSync ==
    (request.op \in {"sync_connector", "upload_csv"} /\ response.success)
        => \E c \in connectors : /\ c.id = request.id
                                 /\ c.last_sync # NULL
                                 /\ c.last_sync = clock

\* a sync under the caller's own X-Tenant-ID of a connector of the caller's
\* tenant
OwnSync ==
    /\ request.op = "sync_connector"
    /\ request.header = Str(Home)
    /\ request.id \in Ids(OfTenant(connectors, Home))

\* the data records held by a set of RawIngest rows
RECURSIVE DataRecords(_)
DataRecords(rows) ==
    IF rows = {} THEN 0
    ELSE LET r == CHOOSE x \in rows : TRUE
         IN  r.record_count + DataRecords(rows \ {r})

\* C26 (as the spec states it): a sync of a connector of the caller's tenant
\* answers, for type 'csv', success with records_ingested 0 and no row added;
\* for 'hubspot' and 'google_ads', success with records_ingested the number of
\* data records in the RawIngest rows it added; for any other type, no success,
\* records_ingested 0 and no row added.
C26_SyncByConnectorType ==
    OwnSync
        => LET type == Row(connectors, request.id).type
           IN  IF type = "csv"
               THEN /\ response.success
                    /\ response.count = 0
                    /\ written = {}
               ELSE IF type \in {"hubspot", "google_ads"}
               THEN /\ response.success
                    /\ written = {"raw_ingest"}
                    /\ response.rows # {}
                    /\ response.count =
                         DataRecords({r \in raw_ingest : r.id \in response.rows})
               ELSE /\ ~response.success
                    /\ response.count = 0
                    /\ written = {}

C28_ServicesHoldNoRequestState ==
    [][/\ field_mappings' = field_mappings
       /\ assistant_responses' = assistant_responses]_vars

\* C29 (as the spec states it): an alert whose resolved_at is set is changed by
\* no later request; acknowledge(true), acknowledge(false) and resolve leave
\* its row as it was when it was resolved.
C29_ResolvedIsTerminal ==
    [][\A a \in alerts : a.resolved_at # NULL => a \in alerts']_vars

\* what an alert row holds of its acknowledgement
Flagged(a) == "acknowledged" \in DOMAIN a /\ a.acknowledged
HasAcknowledger(a) == "acknowledged_by" \in DOMAIN a /\ a.acknowledged_by # NULL
HasAcknowledgedAt(a) == a.acknowledged_at # NULL

\* C30 (as the spec states it): in every state an alert's acknowledged is true
\* exactly when its acknowledged_by and its acknowledged_at are both set; an
\* alert that has just been unacknowledged carries neither; and an
\* acknowledged_by that is set is the id of a user of the alert's tenant.
C30_AcknowledgementConsistent ==
    /\ \A a \in alerts :
         /\ Flagged(a) <=> (HasAcknowledger(a) /\ HasAcknowledgedAt(a))
         /\ HasAcknowledger(a)
              => \E u \in users : u.id = a.acknowledged_by /\ u.tenant_id = a.tenant_id
    /\ (/\ request.op = "acknowledge_alert"
        /\ request.arg = "false"
        /\ response.status = 200)
          => LET alert == Row(alerts, request.id)
             IN  ~HasAcknowledger(alert) /\ ~HasAcknowledgedAt(alert)

====
